---- MODULE Spec2Model ----
(***************************************************************************)
(* A model of the moga library: the Pareto dominance primitive of          *)
(* src/score.rs, the NSGA-II and SPEA-II engines of src/optimizer/ and the *)
(* operator executors of src/testing.rs, src/selection.rs,                 *)
(* src/recombination.rs, src/mutation.rs and src/termination.rs.           *)
(*                                                                         *)
(* Scores are f32 values.  They are modelled as small integers plus the    *)
(* distinguished value NaN; every operation used on them (abs, partial_cmp,*)
(* subtraction, squaring) is exact on small integers.                      *)
(***************************************************************************)
EXTENDS Integers, Sequences, FiniteSets, TLC

VARIABLES
  pc,                      \* position of the driver thread
  a, b,                    \* the two score vectors of a dominance comparison
  ord, rev,                \* dominance(a, b) and dominance(b, a)
  population, scores,      \* optimize(): population and its scores
  archive, archive_scores, \* Spea2::optimize(): archive and its scores
  initial_population_size, \* Nsga2.initial_population_size
  archive_size,            \* Spea2.archive_size
  terminator,              \* the terminator operator and its state
  selected,                \* references (indices) returned by the selector
  created,                 \* created_population / created_solutions
  created_scores,          \* scores the tester returned for `created`
  next_id,                 \* identity of the next solution to be created
  result,                  \* what optimize() has returned, or the panic
  hist,                    \* history of the run: calls made so far
  stage,                   \* an executor call: the operator kind it executes
  strategy,                \* its execution strategy
  items,                   \* its input: solutions, or references to parents
  item_scores,             \* the scores of the solutions handed to it
  threads,                 \* rayon::current_num_threads()
  operator,                \* the per-item operator it applies
  chunks,                  \* the pieces the input was split into
  pending,                 \* numbers of the pieces no worker has taken yet
  workers,                 \* per worker thread, the pieces it has processed
  calls,                   \* the invocations of the operator, in order
  output,                  \* what the executor returned
  env,                     \* a call of environmental_selection: its locals
  trunc                    \* a call of crowding_distance_selection: its locals

vars == <<pc, a, b, ord, rev, population, scores, archive, archive_scores,
          initial_population_size, archive_size, terminator, selected,
          created, created_scores, next_id, result, hist,
          stage, strategy, items, item_scores, threads, operator, chunks, pending,
          workers, calls, output, env, trunc>>

callVars == <<env, trunc>>

execVars == <<stage, strategy, items, item_scores, threads, operator, chunks, pending,
              workers, calls, output>>

domVars == <<a, b, ord, rev>>
runVars == <<population, scores, archive, archive_scores,
             initial_population_size, archive_size, terminator, selected,
             created, created_scores, next_id, result, hist>>

-----------------------------------------------------------------------------
(* Bounds of the model *)

MaxN == 3          \* longest score vector compared in the dominance harness
MaxPop == 2        \* largest initial population of an engine run
MaxOffspring == 2  \* most offspring a recombinator returns in one generation
MaxExtra == 1      \* most surplus score vectors a whole-slice tester returns
MaxGen == 2        \* most generations of a run
MaxSel == 1        \* most references a selector returns
MaxArchive == 3    \* largest archive_size of a SPEA-II optimizer
MaxLen == 3        \* longest input of an executor call
MaxThreads == 2    \* most worker threads of the rayon pool
MaxParents == 2    \* most parents P of a per-item recombination
MaxChildren == 2   \* most offspring O of a per-item recombination
MaxPick == 2       \* largest count n of a stock selector
MaxTournament == 3 \* largest tournament size k of a stock selector
MaxMerged == 4     \* largest merged archive of a single selection call
MaxCombined == 6   \* largest combined population of a single truncation call

-----------------------------------------------------------------------------
(* Scores: src/score.rs *)

\* the f32 NaN; any value outside the integers used as scores
NaN == 99

\* f32 values of the dominance harness
Vals == {-1, 0, 1, 2, NaN}

Range(s) == {s[i] : i \in DOMAIN s}

Min2(x, y) == IF x < y THEN x ELSE y

\* a slip that compares the signed values
abs_signed(x) == x

\* f32::abs
abs(x) == IF x = NaN THEN NaN ELSE IF x < 0 THEN -x ELSE x

\* a slip that takes equal values for Less
partial_cmp_le(x, y) ==
  IF x = NaN \/ y = NaN THEN "None"
  ELSE IF x <= y THEN "Less"
  ELSE "Greater"

\* f32::partial_cmp: None when either side is NaN
partial_cmp(x, y) ==
  IF x = NaN \/ y = NaN THEN "None"
  ELSE IF x < y THEN "Less"
  ELSE IF x > y THEN "Greater"
  ELSE "Equal"

\* the loop of dominance() from coordinate i on, `o` being the tentative
\* result; "Panic" is expect("NaN encountered")
RECURSIVE dominance_from(_, _, _, _)
dominance_from(x, y, i, o) ==
  IF i > Min2(Len(x), Len(y)) THEN o
  ELSE LET next_ord == partial_cmp(abs(x[i]), abs(y[i])) IN
       IF next_ord = "None" THEN "Panic"
       ELSE IF o = "Equal" THEN dominance_from(x, y, i + 1, next_ord)
       ELSE IF (o = "Greater" /\ next_ord = "Less")
               \/ (o = "Less" /\ next_ord = "Greater") THEN "Equal"
       ELSE dominance_from(x, y, i + 1, o)

\* <[Score] as ParetoDominance>::dominance
dominance(x, y) == dominance_from(x, y, 1, "Equal")

\* Ordering::reverse
reverse(o) ==
  CASE o = "Less" -> "Greater"
    [] o = "Greater" -> "Less"
    [] OTHER -> o

-----------------------------------------------------------------------------
(* The dominance harness: two vectors of the same length N are compared in   *)
(* both directions.                                                          *)

\* no executor call is under way
ExecIdle ==
  /\ stage = "none" /\ strategy = "none"
  /\ items = <<>> /\ item_scores = <<>> /\ threads = 0 /\ operator = <<>>
  /\ chunks = <<>> /\ pending = {} /\ workers = <<>>
  /\ calls = <<>> /\ output = <<>>

\* no call of a truncation procedure is followed on its own
CallIdle == env = <<>> /\ trunc = <<>>

RunIdle ==
  /\ population = <<>> /\ scores = <<>>
  /\ archive = <<>> /\ archive_scores = <<>>
  /\ initial_population_size = 0 /\ archive_size = 0
  /\ terminator = [kind |-> "none", n |-> 0]
  /\ selected = <<>> /\ created = <<>> /\ created_scores = <<>>
  /\ next_id = 0
  /\ result = [kind |-> "none"]
  /\ hist = [tests |-> <<>>, terms |-> 0, gens |-> 0,
             built |-> [kind |-> "none", n |-> 0],
             env |-> [merged |-> 0, nondommed_cnt |-> 0]]

DomInit ==
  /\ CallIdle
  /\ pc = "dominance"
  /\ \E n \in 0..MaxN : a \in [1..n -> Vals] /\ b \in [1..n -> Vals]
  /\ ord = "none" /\ rev = "none"
  /\ RunIdle
  /\ ExecIdle

Compare ==
  /\ pc = "dominance"
  /\ ord' = dominance(a, b)
  /\ pc' = "reverse"
  /\ UNCHANGED <<a, b, rev, runVars, execVars, callVars>>

CompareReversed ==
  /\ pc = "reverse"
  /\ rev' = dominance(b, a)
  /\ pc' = "compared"
  /\ UNCHANGED <<a, b, ord, runVars, execVars, callVars>>

DomNext == Compare \/ CompareReversed

SpecDom == DomInit /\ [][DomNext]_vars

NaNFree(v) == \A i \in DOMAIN v : v[i] # NaN

\* |v| of a score that is not NaN
Magnitude(v) == IF v < 0 THEN 0 - v ELSE v

\* x dominates y: no coordinate of x is farther from zero, and one is closer
Dominates(x, y) ==
  /\ \A i \in DOMAIN x : Magnitude(x[i]) <= Magnitude(y[i])
  /\ \E i \in DOMAIN x : Magnitude(x[i]) < Magnitude(y[i])

SameAbs(x, y) == \A i \in DOMAIN x : Magnitude(x[i]) = Magnitude(y[i])

\* C1: for NaN-free vectors of the same length, dominance(a, b) is Less iff a
\* dominates b, Greater iff b dominates a, and Equal in every other case
\* (equal absolute values, coordinates that disagree, length 0).
C1_DominanceTable ==
  (pc # "dominance" /\ NaNFree(a) /\ NaNFree(b)) =>
    ord = (IF Dominates(a, b) THEN "Less"
           ELSE IF Dominates(b, a) THEN "Greater"
           ELSE "Equal")

\* a dominates b through a coordinate of negative sign, another being equal
C1_Witness ==
  /\ pc = "compared" /\ NaNFree(a) /\ NaNFree(b) /\ Len(a) = MaxN
  /\ ord = "Less"
  /\ \E i \in DOMAIN a : a[i] < 0 /\ Magnitude(a[i]) < Magnitude(b[i])
  /\ \E i \in DOMAIN a : Magnitude(a[i]) = Magnitude(b[i])

\* C2: for NaN-free vectors of the same length, dominance(b, a) is the reverse
\* of dominance(a, b), and vectors with the same absolute values (a against
\* itself, a against a with signs flipped) compare Equal.
C2_Antisymmetry ==
  (pc = "compared" /\ NaNFree(a) /\ NaNFree(b)) =>
    /\ rev = reverse(ord)
    /\ ~(ord = "Less" /\ rev = "Less")
    /\ SameAbs(a, b) => ord = "Equal"

\* a vector compared with a copy of itself in which some signs are flipped
C2_Witness ==
  /\ pc = "compared" /\ NaNFree(a) /\ NaNFree(b) /\ Len(a) = MaxN
  /\ SameAbs(a, b) /\ a # b /\ ord = "Equal" /\ rev = "Equal"

\* C3: a comparison in which any coordinate of either vector is NaN panics
\* with "NaN encountered", wherever the NaN sits.
C3_NaNAlwaysPanics ==
  (pc # "dominance" /\ (~NaNFree(a) \/ ~NaNFree(b))) => ord = "Panic"

-----------------------------------------------------------------------------
(* Sequences (Vec) *)

\* the 1-based positions i..j of s (Vec slices, truncate)
Slice(s, i, j) == IF j < i THEN <<>> ELSE SubSeq(s, i, j)

\* Vec::truncate
truncate(s, n) == IF Len(s) > n THEN SubSeq(s, 1, n) ELSE s

\* Vec::remove
remove(s, i) == Slice(s, 1, i - 1) \o Slice(s, i + 1, Len(s))

\* lexicographic order of two keys <<k1, k2>>
KeyLess(x, y) == x[1] < y[1] \/ (x[1] = y[1] /\ x[2] < y[2])

\* inserts e behind every element of the sorted sequence s that is not
\* greater than it
RECURSIVE insert_sorted(_, _, _)
insert_sorted(s, e, key) ==
  IF s = <<>> THEN <<e>>
  ELSE IF KeyLess(key[e], key[s[Len(s)]])
       THEN Append(insert_sorted(SubSeq(s, 1, Len(s) - 1), e, key), s[Len(s)])
       ELSE Append(s, e)

RECURSIVE sort_from(_, _, _, _)
sort_from(s, key, i, acc) ==
  IF i > Len(s) THEN acc
  ELSE sort_from(s, key, i + 1, insert_sorted(acc, s[i], key))

\* slice::sort_by, a stable sort: s ordered by key[e] ascending, elements of
\* equal key in their order in s
sort_by(s, key) == sort_from(s, key, 1, <<>>)

-----------------------------------------------------------------------------
(* NSGA-II truncation: src/optimizer/nsga.rs, crowding_distance_selection.  *)
(* Solutions are numbered from 1: solution i of the model is index i - 1 of *)
(* the code.                                                                *)

\* const OBJECTIVE_NUM of the optimizers of the model
OBJECTIVE_NUM == 2

\* FrontNumber::MAX (u32::MAX), the front number of a solution that was
\* given none; the largest integer of the model stands for it
FrontNumberMAX == 2147483647

\* f64::MAX.  Crowding distances are counted in units of f64::MAX / 256:
\* 0..256 are finite, CdInf is +infinity and CdNaN is NaN, so that the
\* integer order is f64::total_cmp
F64MAX == 256
CdInf == F64MAX + 1
CdNaN == F64MAX + 2

\* (x - y).abs() of two crowding distances
cd_abs_diff(x, y) ==
  IF x = CdNaN \/ y = CdNaN THEN CdNaN
  ELSE IF x = CdInf /\ y = CdInf THEN CdNaN
  ELSE IF x = CdInf \/ y = CdInf THEN CdInf
  ELSE IF x < y THEN y - x ELSE x - y

\* x / d for a score difference d >= 1
cd_div(x, d) == IF x >= CdInf THEN x ELSE x \div d

\* x + y, which overflows to +infinity above f64::MAX
cd_add(x, y) ==
  IF x = CdNaN \/ y = CdNaN THEN CdNaN
  ELSE IF x = CdInf \/ y = CdInf \/ x + y > F64MAX THEN CdInf
  ELSE x + y

\* the inner loop of "fill dominance sets and counters": p against q, q + 1, ...
RECURSIVE nsga_scan_q(_, _, _, _, _)

\* one pair: p against q, whose comparison gave d
nsga_scan_pair(st, scs, M, p, q, d) ==
  IF d = "Panic" THEN [st EXCEPT !.panic = "NaN encountered"]
  ELSE IF d = "Equal" THEN nsga_scan_q(st, scs, M, p, q + 1)
  ELSE IF q > M THEN [st EXCEPT !.panic = "index out of bounds"]
  ELSE IF d = "Less"
  THEN nsga_scan_q([st EXCEPT !.dominance_lists[p] = Append(@, q),
                              !.dominance_counters[q] = @ + 1],
                   scs, M, p, q + 1)
  ELSE nsga_scan_q([st EXCEPT !.dominance_lists[q] = Append(@, p),
                              !.dominance_counters[p] = @ + 1],
                   scs, M, p, q + 1)

nsga_scan_q(st, scs, M, p, q) ==
  IF st.panic # "" \/ q > Len(scs) THEN st
  ELSE nsga_scan_pair(st, scs, M, p, q, dominance(scs[p], scs[q]))

\* the outer loop: for p_idx in 0..solutions.len()
RECURSIVE nsga_scan_p(_, _, _, _)

\* "if solution p isn't dominated by any other solution", after p's pairs
nsga_scan_first(st, scs, M, p) ==
  IF st.panic # "" THEN st
  ELSE IF st.dominance_counters[p] = 0
  THEN nsga_scan_p([st EXCEPT !.first_front = Append(@, p)], scs, M, p + 1)
  ELSE nsga_scan_p(st, scs, M, p + 1)

nsga_scan_p(st, scs, M, p) ==
  IF st.panic # "" \/ p > M THEN st
  ELSE IF p > Len(scs) THEN [st EXCEPT !.panic = "no scores remain"]
  ELSE nsga_scan_first(nsga_scan_q(st, scs, M, p, p + 1), scs, M, p)

\* dominance lists, dominance counters and the first front of M solutions
nsga_scan(scs, M) ==
  nsga_scan_p([dominance_lists |-> [i \in 1..M |-> <<>>],
               dominance_counters |-> [i \in 1..M |-> 0],
               first_front |-> <<>>,
               panic |-> ""], scs, M, 1)

\* a slip of the body that puts q into the next front as soon as one of its
\* dominators is released
nsga_release_one_eager(st, q) ==
  [st EXCEPT !.dominance_counters[q] = @ - 1,
             !.front_numbers[q] = st.front_idx,
             !.next_front = Append(@, q)]

\* the body of the loop over dominance_lists[p_idx]: q loses a dominator
nsga_release_one(st, q) ==
  IF st.dominance_counters[q] = 1
  THEN [st EXCEPT !.dominance_counters[q] = 0,
                  !.front_numbers[q] = st.front_idx,
                  !.next_front = Append(@, q)]
  ELSE [st EXCEPT !.dominance_counters[q] = @ - 1]

\* for q_idx in dominance_lists[p_idx]: entries k, k + 1, ... of the list
RECURSIVE nsga_release(_, _, _)
nsga_release(st, list, k) ==
  IF k > Len(list) THEN st
  ELSE nsga_release(nsga_release_one(st, list[k]), list, k + 1)

\* for p_idx in last_front: members i, i + 1, ... of the last front
RECURSIVE nsga_next_front(_, _, _)
nsga_next_front(st, lists, i) ==
  IF i > Len(st.last_front) THEN st
  ELSE nsga_next_front(nsga_release(st, lists[st.last_front[i]], 1), lists, i + 1)

\* the end of the loop body: the last front is admitted and replaced
nsga_admit(st) ==
  [st EXCEPT !.new_solutions_indices = @ \o st.last_front,
             !.fronts = Append(@, st.last_front),
             !.last_front = st.next_front,
             !.front_idx = @ + 1]

\* "until we select enough solutions": the while loop over the fronts.  With
\* an empty last front the loop can neither admit nor find a solution any
\* more and never ends ("hang").
RECURSIVE nsga_fronts(_, _, _)
nsga_fronts(st, lists, size) ==
  IF Len(st.new_solutions_indices) + Len(st.last_front) >= size THEN st
  ELSE IF st.last_front = <<>> THEN [st EXCEPT !.hang = TRUE]
  ELSE nsga_fronts(
         nsga_admit(nsga_next_front([st EXCEPT !.next_front = <<>>], lists, 1)),
         lists, size)

\* for idx in 2..last_front.len() - 2, from idx on; crowding_distances is
\* indexed by idx itself
RECURSIVE nsga_crowd_inner(_, _, _, _)
nsga_crowd_inner(cd, idx, len, score_diff) ==
  IF idx >= len - 2 THEN cd
  ELSE nsga_crowd_inner(
         IF cd[idx + 1] # F64MAX
         THEN [cd EXCEPT ![idx + 1] =
                 cd_add(@, cd_div(cd_abs_diff(cd[idx + 2], cd[idx]), score_diff))]
         ELSE cd,
         idx + 1, len, score_diff)

\* score_diff of the scores of the first and the last member of the front
nsga_score_diff(min_score, max_score) ==
  IF max_score # min_score THEN max_score - min_score ELSE 1

\* the body of the loop over the objectives, the front being sorted by
\* objective o: the crowding distances after it
nsga_crowd_objective(cd, front, scs, o) ==
  nsga_crowd_inner([cd EXCEPT ![front[1]] = F64MAX,
                              ![front[Len(front)]] = F64MAX],
                   2, Len(front),
                   nsga_score_diff(scs[front[1]][o], scs[front[Len(front)]][o]))

\* the front sorted by the scores of objective o
nsga_sort_by_score(front, scs, o) ==
  sort_by(front, [i \in Range(front) |-> <<scs[i][o], 0>>])

\* the front sorted by crowding distance, descending
nsga_sort_by_cd(front, cd) ==
  sort_by(front, [i \in Range(front) |-> <<0 - cd[i], 0>>])

\* for o_idx in 0..OBJECTIVE_NUM, from objective o on
RECURSIVE nsga_crowd(_, _, _)

nsga_crowd_sorted(st, front, scs, o) ==
  nsga_crowd([st EXCEPT !.last_front = front,
                        !.crowding_distances =
                          nsga_crowd_objective(@, front, scs, o)],
             scs, o + 1)

nsga_crowd(st, scs, o) ==
  IF o > OBJECTIVE_NUM THEN st
  ELSE nsga_crowd_sorted(st, nsga_sort_by_score(st.last_front, scs, o), scs, o)

nsga_crowd_last(st) ==
  [st EXCEPT !.last_front = nsga_sort_by_cd(@, st.crowding_distances)]

\* "calculate crowding distance for each solution in the last found front"
nsga_crowding(st, scs, M) ==
  IF Len(st.last_front) > 2
  THEN nsga_crowd_last(
         nsga_crowd([st EXCEPT !.crowding_distances = [i \in 1..M |-> 0]], scs, 1))
  ELSE [st EXCEPT !.crowding_distances = [i \in 1..M |-> 0]]

\* a slip that truncates before the last front was put in crowding order
\* behind the admitted fronts
nsga_indices_reversed(st, size) ==
  sort_by(truncate(st.last_front \o st.new_solutions_indices, size),
          [i \in Range(st.last_front) \cup Range(st.new_solutions_indices) |->
             <<st.front_numbers[i], 0 - st.crowding_distances[i]>>])

\* the indices of every front found so far, none dropped
nsga_indices_all(st, size) == st.new_solutions_indices \o st.last_front

\* new_solutions_indices: appended, truncated and sorted by
\* (front number, crowding distance descending)
nsga_indices(st, size) ==
  sort_by(truncate(st.new_solutions_indices \o st.last_front, size),
          [i \in Range(st.last_front) \cup Range(st.new_solutions_indices) |->
             <<st.front_numbers[i], 0 - st.crowding_distances[i]>>])

\* a slip that hands out the scores in their old order instead of by index
nsga_take_positional(solutions, scs, size, st, indices) ==
  [kind |-> "ok",
   sols |-> [k \in 1..Len(indices) |-> solutions[indices[k]]],
   scs |-> [k \in 1..Len(indices) |-> scs[k]],
   indices |-> indices,
   fronts |-> st.fronts,
   last_front |-> st.last_front,
   front_numbers |-> st.front_numbers,
   crowding_distances |-> st.crowding_distances]

\* the solutions and scores moved out by index, with the debug assertions
nsga_take(solutions, scs, size, st, indices) ==
  IF Cardinality(Range(indices)) # Len(indices)
  THEN [kind |-> "panic", msg |-> "new_solutions_indices must have only unique indices"]
  ELSE IF Len(indices) # size
  THEN [kind |-> "panic", msg |-> "new population size must match initial population size"]
  ELSE [kind |-> "ok",
        sols |-> [k \in 1..Len(indices) |-> solutions[indices[k]]],
        scs |-> [k \in 1..Len(indices) |-> scs[indices[k]]],
        indices |-> indices,
        fronts |-> st.fronts,
        last_front |-> st.last_front,
        front_numbers |-> st.front_numbers,
        crowding_distances |-> st.crowding_distances]

nsga_crowded(solutions, scs, size, st) ==
  nsga_take(solutions, scs, size, st, nsga_indices(st, size))

nsga_fronted(solutions, scs, size, st) ==
  IF st.hang THEN [kind |-> "hang"]
  ELSE nsga_crowded(solutions, scs, size, nsga_crowding(st, scs, Len(solutions)))

nsga_scanned(solutions, scs, size, scan) ==
  IF scan.panic # "" THEN [kind |-> "panic", msg |-> scan.panic]
  ELSE IF scan.first_front = <<>>
  THEN [kind |-> "panic", msg |-> "first front must have at least 1 solution"]
  ELSE nsga_fronted(solutions, scs, size,
         nsga_fronts([dominance_counters |-> scan.dominance_counters,
                      front_numbers |-> [i \in 1..Len(solutions) |-> FrontNumberMAX],
                      last_front |-> scan.first_front,
                      next_front |-> <<>>,
                      new_solutions_indices |-> <<>>,
                      fronts |-> <<>>,
                      front_idx |-> 0,
                      crowding_distances |-> <<>>,
                      hang |-> FALSE],
                     scan.dominance_lists, size))

\* Nsga2::crowding_distance_selection: the next (solutions, scores), or the
\* panic that ends it
crowding_distance_selection(solutions, scs, size) ==
  nsga_scanned(solutions, scs, size, nsga_scan(scs, Len(solutions)))

-----------------------------------------------------------------------------
(* SPEA-II environmental selection: src/optimizer/spea.rs.                   *)
(* Solutions are numbered from 1.  Raw fitness values are sums of strength   *)
(* values, whole numbers; a fitness with the density term added is kept as   *)
(* the fraction <<numerator, denominator>>.                                  *)

\* one pair of the strength pass: p against q, whose comparison gave d
RECURSIVE spea_strength_q(_, _, _, _)
spea_strength_pair(st, scs, p, q, d) ==
  IF d = "Panic" THEN [st EXCEPT !.panic = "NaN encountered"]
  ELSE IF d = "Less"
  THEN spea_strength_q([st EXCEPT !.strength_values[p] = @ + 1], scs, p, q + 1)
  ELSE IF d = "Greater"
  THEN spea_strength_q([st EXCEPT !.strength_values[q] = @ + 1], scs, p, q + 1)
  ELSE spea_strength_q(st, scs, p, q + 1)

spea_strength_q(st, scs, p, q) ==
  IF st.panic # "" \/ q > Len(scs) THEN st
  ELSE spea_strength_pair(st, scs, p, q, dominance(scs[p], scs[q]))

\* "count strength values for each solution": for p_idx in 0..len - 1
RECURSIVE spea_strength_p(_, _, _, _)
spea_strength_p(st, scs, M, p) ==
  IF st.panic # "" \/ p > M - 1 THEN st
  ELSE spea_strength_p(spea_strength_q(st, scs, p, p + 1), scs, M, p + 1)

RECURSIVE spea_fitness_q(_, _, _, _)

\* a slip of the pass that counts the dominators instead of adding up their
\* strength values
spea_fitness_pair_unit(st, scs, p, q, d) ==
  IF d = "Panic" THEN [st EXCEPT !.panic = "NaN encountered"]
  ELSE IF d = "Less"
  THEN spea_fitness_q([st EXCEPT !.fit[q] = @ + 1], scs, p, q + 1)
  ELSE IF d = "Greater"
  THEN spea_fitness_q([st EXCEPT !.fit[p] = @ + 1], scs, p, q + 1)
  ELSE spea_fitness_q(st, scs, p, q + 1)

\* one pair of the raw fitness pass
spea_fitness_pair(st, scs, p, q, d) ==
  IF d = "Panic" THEN [st EXCEPT !.panic = "NaN encountered"]
  ELSE IF d = "Less"
  THEN spea_fitness_q([st EXCEPT !.fit[q] = @ + st.strength_values[p]], scs, p, q + 1)
  ELSE IF d = "Greater"
  THEN spea_fitness_q([st EXCEPT !.fit[p] = @ + st.strength_values[q]], scs, p, q + 1)
  ELSE spea_fitness_q(st, scs, p, q + 1)

spea_fitness_q(st, scs, p, q) ==
  IF st.panic # "" \/ q > Len(scs) THEN st
  ELSE spea_fitness_pair(st, scs, p, q, dominance(scs[p], scs[q]))

\* "compute raw fitness for each solution"
RECURSIVE spea_fitness_p(_, _, _, _)
spea_fitness_p(st, scs, M, p) ==
  IF st.panic # "" \/ p > M - 1 THEN st
  ELSE spea_fitness_p(spea_fitness_q(st, scs, p, p + 1), scs, M, p + 1)

\* strength values and raw fitness of M solutions
spea_fitness(scs, M) ==
  spea_fitness_p(
    spea_strength_p([strength_values |-> [i \in 1..M |-> 0],
                     fit |-> [i \in 1..M |-> 0],
                     panic |-> ""], scs, M, 1),
    scs, M, 1)

\* (a - b).powf(2.0), summed over the objectives from coordinate i on
RECURSIVE distance_from(_, _, _)
distance_from(x, y, i) ==
  IF i > Min2(Len(x), Len(y)) THEN 0
  ELSE (x[i] - y[i]) * (x[i] - y[i]) + distance_from(x, y, i + 1)

\* the row of member i of idxs: <<j, distance>> for every other member j, in
\* the order in which the entries are pushed
distance_row(idxs, scs, i) ==
  [k \in 1..(Len(idxs) - 1) |->
     <<IF k < i THEN k ELSE k + 1,
       distance_from(scs[idxs[i]], scs[idxs[IF k < i THEN k ELSE k + 1]], 1)>>]

\* sort_unstable_by of a row on the distances.  Only the distances of a
\* row are ever compared or read, and its entries are removed by index, so
\* the order of entries of equal distance is not observable; the model keeps
\* them in push order.
sort_row(row) ==
  [k \in 1..Len(row) |->
     row[sort_by([i \in 1..Len(row) |-> i],
                 [i \in 1..Len(row) |-> <<row[i][2], 0>>])[k]]]

\* sorted_sol_distances: one <<label, sorted row>> per member of idxs
sorted_sol_distances(idxs, scs) ==
  [i \in 1..Len(idxs) |-> <<i, sort_row(distance_row(idxs, scs, i))>>]

\* the comparison of min_by: two rows by their distances, nearest first
RECURSIVE row_cmp(_, _, _)
row_cmp(x, y, i) ==
  IF i > Min2(Len(x), Len(y)) THEN "Equal"
  ELSE IF x[i][2] < y[i][2] THEN "Less"
  ELSE IF x[i][2] > y[i][2] THEN "Greater"
  ELSE row_cmp(x, y, i + 1)

\* a slip of min_by that gives way to a later row of equal distances
RECURSIVE min_row_last(_, _, _)
min_row_last(rows, best, i) ==
  IF i > Len(rows) THEN best
  ELSE IF row_cmp(rows[i][2], rows[best][2], 1) # "Greater"
       THEN min_row_last(rows, i, i + 1)
       ELSE min_row_last(rows, best, i + 1)

\* Iterator::min_by over the rows from position i on, `best` being the
\* minimum so far: the first of the minimal rows
RECURSIVE min_row(_, _, _)
min_row(rows, best, i) ==
  IF i > Len(rows) THEN best
  ELSE IF row_cmp(rows[i][2], rows[best][2], 1) = "Less"
       THEN min_row(rows, i, i + 1)
       ELSE min_row(rows, best, i + 1)

\* position of the entry of a row for the member labelled `label`, 0 if none
RECURSIVE find_entry(_, _, _)
find_entry(row, label, i) ==
  IF i > Len(row) THEN 0
  ELSE IF row[i][1] = label THEN i
  ELSE find_entry(row, label, i + 1)

\* the rows that remain after the row at position `pos` was removed, each
\* without its entry for the removed member
rows_without(rows, pos) ==
  [k \in 1..(Len(rows) - 1) |->
     <<remove(rows, pos)[k][1],
       remove(remove(rows, pos)[k][2],
              find_entry(remove(rows, pos)[k][2], rows[pos][1], 1))>>]

\* whether every other row holds an entry for the member at `pos`
rows_hold(rows, pos) ==
  \A k \in (1..Len(rows)) \ {pos} : find_entry(rows[k][2], rows[pos][1], 1) # 0

\* every non-dominated member kept, none removed
spea_truncate_skip(nondom, rows, size) == [kind |-> "ok", indices |-> nondom]

\* "while there are more solutions than the archive size"
RECURSIVE spea_truncate(_, _, _)

\* one member removed and the loop left at once
spea_truncate_at_once(nondom, rows, size, pos) ==
  [kind |-> "ok", indices |-> remove(nondom, pos)]

spea_truncate_at(nondom, rows, size, pos) ==
  IF ~rows_hold(rows, pos)
  THEN [kind |-> "panic",
        msg |-> "distance matrix has no entry for removed solution"]
  ELSE spea_truncate(remove(nondom, pos), rows_without(rows, pos), size)

spea_truncate(nondom, rows, size) ==
  IF Len(nondom) <= size THEN [kind |-> "ok", indices |-> nondom]
  ELSE IF rows = <<>> THEN [kind |-> "panic", msg |-> "no solutions remain"]
  ELSE spea_truncate_at(nondom, rows, size, min_row(rows, 1, 2))

\* the positions of s, in order, whose element satisfies fit < 1.0
RECURSIVE nondominated_from(_, _)
nondominated_from(fit, i) ==
  IF i > Len(fit) THEN <<>>
  ELSE IF fit[i] < 1 THEN <<i>> \o nondominated_from(fit, i + 1)
  ELSE nondominated_from(fit, i + 1)

\* (len as f64).sqrt() as usize
isqrt(n) == CHOOSE k \in 0..n : k * k <= n /\ (k + 1) * (k + 1) > n

\* x < y for two fractions
FracLess(x, y) == x[1] * y[2] < y[1] * x[2]

\* a slip that assigns the density term instead of adding it: 1.0 / (d + 2.0)
with_density_only(fit, d) == <<1, d + 2>>

\* fit + 1.0 / (d + 2.0) for a whole fitness and a distance
with_density(fit, d) == <<fit * (d + 2) + 1, d + 2>>

\* sort_unstable_by on the fitness: every order of the members of S that is
\* ascending in fitness; which of them the sort yields for members of equal
\* fitness is left open by slice::sort_unstable_by
RECURSIVE sort_unstable_by(_, _)
sort_unstable_by(S, key) ==
  IF S = {} THEN {<<>>}
  ELSE UNION {{<<x>> \o r : r \in sort_unstable_by(S \ {x}, key)} :
                x \in {y \in S : \A z \in S : ~FracLess(key[z], key[y])}}

\* the else branch: the distance to the k-th neighbour is added to the
\* fitness, the members are sorted and truncated
spea_density(fit, rows, k, size) ==
  IF \E i \in 1..Len(rows) : k < 1 \/ k > Len(rows[i][2])
  THEN {[kind |-> "panic", msg |-> "index out of bounds"]}
  ELSE {[kind |-> "ok", indices |-> truncate(order, size)] :
          order \in sort_unstable_by(
                      1..Len(fit),
                      [i \in 1..Len(fit) |-> with_density(fit[i], rows[i][2][k][2])])}

\* the two branches of the selection, the non-dominated members being nondom
spea_branch(fit, nondom, scs, size) ==
  IF Len(nondom) > size
  THEN {spea_truncate(nondom, sorted_sol_distances(nondom, scs), size)}
  ELSE spea_density(fit,
                    sorted_sol_distances([i \in 1..Len(fit) |-> i], scs),
                    isqrt(Len(fit)), size)

\* the survivors moved out of solutions, with their scores
spea_take(solutions, scs, st, r) ==
  IF r.kind # "ok" THEN r
  ELSE [kind |-> "ok",
        sols |-> [k \in 1..Len(r.indices) |-> solutions[r.indices[k]]],
        scs |-> [k \in 1..Len(r.indices) |-> scs[r.indices[k]]],
        indices |-> r.indices,
        strength_values |-> st.strength_values,
        fit |-> st.fit,
        nondommed_cnt |-> Len(nondominated_from(st.fit, 1))]

spea_selected(solutions, scs, size, st) ==
  IF st.panic # "" THEN {[kind |-> "panic", msg |-> st.panic]}
  ELSE {spea_take(solutions, scs, st, r) :
          r \in spea_branch(st.fit, nondominated_from(st.fit, 1), scs, size)}

\* Spea2::environmental_selection: the (solutions, scores) it may return, or
\* the panic that ends it.  solutions.len() - 1 underflows on an empty
\* archive: a panic in a debug build, and in a release build the scan then
\* panics on scores[0..].split_first().
environmental_selection(solutions, scs, size) ==
  IF solutions = <<>>
  THEN {[kind |-> "panic", msg |-> "attempt to subtract with overflow"]}
  ELSE spea_selected(solutions, scs, size, spea_fitness(scs, Len(solutions)))

\* the inner loop of the final extraction: i against j, j + 1, ...
RECURSIVE extract_j(_, _, _, _)

\* the pair handled without a member being cleared when i dominates j
extract_pair_keep(st, scs, i, j, d) ==
  IF d = "Panic" THEN [st EXCEPT !.panic = "NaN encountered"]
  ELSE IF d = "Greater"
  THEN extract_j([st EXCEPT !.selected_sols[i] = FALSE], scs, i, j + 1)
  ELSE extract_j(st, scs, i, j + 1)

extract_pair(st, scs, i, j, d) ==
  IF d = "Panic" THEN [st EXCEPT !.panic = "NaN encountered"]
  ELSE IF d = "Less"
  THEN extract_j([st EXCEPT !.selected_sols[j] = FALSE], scs, i, j + 1)
  ELSE IF d = "Greater"
  THEN extract_j([st EXCEPT !.selected_sols[i] = FALSE], scs, i, j + 1)
  ELSE extract_j(st, scs, i, j + 1)

extract_j(st, scs, i, j) ==
  IF st.panic # "" \/ j > Len(st.selected_sols) THEN st
  ELSE extract_pair(st, scs, i, j, dominance(scs[i], scs[j]))

\* for i in 0..selected_sols.len() - 1
RECURSIVE extract_i(_, _, _)
extract_i(st, scs, i) ==
  IF st.panic # "" \/ i > Len(st.selected_sols) - 1 THEN st
  ELSE IF ~st.selected_sols[i] THEN extract_i(st, scs, i + 1)
  ELSE extract_i(extract_j(st, scs, i, i + 1), scs, i + 1)

\* the elements of s whose flag is set, in order
RECURSIVE filter_selected(_, _, _)
filter_selected(s, flags, i) ==
  IF i > Len(s) THEN <<>>
  ELSE IF flags[i] THEN <<s[i]>> \o filter_selected(s, flags, i + 1)
  ELSE filter_selected(s, flags, i + 1)

extracted(sols, st) ==
  IF st.panic # "" THEN [kind |-> "panic", msg |-> st.panic]
  ELSE [kind |-> "ok", value |-> filter_selected(sols, st.selected_sols, 1)]

\* the end of Spea2::optimize: the non-dominated members of the archive.
\* selected_sols.len() - 1 underflows on an empty archive: a panic in a debug
\* build, and in a release build selected_sols[0] is then out of bounds.
final_extraction(sols, scs) ==
  IF sols = <<>>
  THEN [kind |-> "panic", msg |-> "attempt to subtract with overflow"]
  ELSE extracted(sols,
                 extract_i([selected_sols |-> [i \in 1..Len(sols) |-> TRUE],
                            panic |-> ""], scs, 1))

-----------------------------------------------------------------------------
(* The operators of a run: src/testing.rs, src/selection.rs,                *)
(* src/recombination.rs, src/mutation.rs, src/termination.rs.               *)
(* A solution is opaque to the engines; the model gives it an identity and  *)
(* counts the applications of the mutation operator to it.                  *)

\* score vectors a tester of the model returns
EngScores == {<<0, 0>>, <<0, 1>>, <<1, 0>>, <<-1, 1>>}

Solution(i) == [id |-> i, muts |-> 0]

\* the initial population handed to the builder
Population(n) == [i \in 1..n |-> Solution(i)]

Terminators ==
  {[kind |-> "GenerationTerminator", n |-> k] : k \in 0..MaxGen}
    \cup {[kind |-> "Terminator", n |-> 0]}

\* GenerationTerminator::terminate: the answer and the terminator after it
generation_terminate(t) ==
  IF t.n = 0 THEN [stop |-> TRUE, next |-> t]
  ELSE [stop |-> FALSE, next |-> [t EXCEPT !.n = @ - 1]]

\* execute_termination: what the terminator may answer.  A terminator
\* supplied by the user answers as it likes; the model lets it continue
\* for MaxGen generations at most.
execute_termination(t, gens) ==
  IF t.kind = "GenerationTerminator" THEN {generation_terminate(t)}
  ELSE {[stop |-> TRUE, next |-> t]}
         \cup (IF gens < MaxGen THEN {[stop |-> FALSE, next |-> t]} ELSE {})

\* execute_tests: what a tester may return for n solutions.  The per-item
\* executors return n score vectors; a whole-slice Tester returns as many
\* as it likes (the model: a wrong number of copies of one score vector).
execute_tests(n) ==
  [1..n -> EngScores]
    \cup UNION {[1..k -> {sc}] : k \in (0..(n + MaxExtra)) \ {n}, sc \in EngScores}

\* execute_selection: references to solutions of a population of n, as
\* indices, in any number, order and repetition
execute_selection(n) ==
  UNION {[1..k -> 1..n] : k \in 0..MaxSel}

\* execute_recombination: the newly created solutions, c of them
execute_recombination(first_id, c) ==
  [i \in 1..c |-> Solution(first_id + i - 1)]

\* a slip that leaves the last element alone
execute_mutations_but_last(sols) ==
  [i \in 1..Len(sols) |->
     IF i < Len(sols) THEN [sols[i] EXCEPT !.muts = @ + 1] ELSE sols[i]]

\* execute_mutations: the mutation operator applied to every element
execute_mutations(sols) ==
  [i \in 1..Len(sols) |-> [sols[i] EXCEPT !.muts = @ + 1]]

TestCall(given, returned) == [given |-> given, returned |-> returned]

\* the history of a run that has not begun: the calls of the tester (tests),
\* the number of calls of the terminator (terms), the number of loop bodies
\* run to their end (gens), the terminator the optimizer was built with
\* (built), and the size and the non-dominated count of the archive last
\* handed to the environmental selection (env)
NoHistory(t) ==
  [tests |-> <<>>, terms |-> 0, gens |-> 0, built |-> t,
   env |-> [merged |-> 0, nondommed_cnt |-> 0]]

DomIdle == a = <<>> /\ b = <<>> /\ ord = "none" /\ rev = "none"

-----------------------------------------------------------------------------
(* NSGA-II: src/optimizer/nsga.rs, Nsga2::optimize *)

\* the optimizer as built: a non-empty population (the builder panics on an
\* empty one), initial_population_size = population.len()
NsgaInit ==
  /\ CallIdle
  /\ pc = "nsga_test"
  /\ DomIdle
  /\ ExecIdle
  /\ \E n \in 1..MaxPop :
       /\ population = Population(n)
       /\ initial_population_size = n
       /\ next_id = n + 1
  /\ scores = <<>>
  /\ archive = <<>> /\ archive_scores = <<>> /\ archive_size = 0
  /\ terminator \in Terminators
  /\ selected = <<>> /\ created = <<>> /\ created_scores = <<>>
  /\ result = [kind |-> "none"]
  /\ hist = NoHistory(terminator)

\* let mut scores = self.tester.execute_tests(&population)
NsgaTestPopulation ==
  /\ pc = "nsga_test"
  /\ \E out \in execute_tests(Len(population)) :
       /\ scores' = out
       /\ hist' = [hist EXCEPT !.tests = Append(@, TestCall(Len(population), Len(out)))]
  /\ pc' = "nsga_terminate"
  /\ UNCHANGED <<domVars, callVars, execVars, population, archive, archive_scores,
                 initial_population_size, archive_size, terminator, selected,
                 created, created_scores, next_id, result>>

\* while !self.terminator.execute_termination(..), the two assertions that
\* open the loop body and, on termination, the return of the population
NsgaTerminate ==
  /\ pc = "nsga_terminate"
  /\ \E t \in execute_termination(terminator, hist.gens) :
       /\ terminator' = t.next
       /\ IF t.stop
          THEN /\ pc' = "returned"
               /\ result' = [kind |-> "ok", value |-> population]
          ELSE IF population = <<>>
          THEN /\ pc' = "panicked"
               /\ result' = [kind |-> "panic", msg |-> "the population is empty"]
          ELSE IF Len(scores) # Len(population)
          THEN /\ pc' = "panicked"
               /\ result' = [kind |-> "panic",
                             msg |-> "the number of calculated fitness scores doesn't match size of the population"]
          ELSE /\ pc' = "nsga_select"
               /\ UNCHANGED result
  /\ hist' = [hist EXCEPT !.terms = @ + 1]
  /\ UNCHANGED <<domVars, callVars, execVars, population, scores, archive, archive_scores,
                 initial_population_size, archive_size, selected, created,
                 created_scores, next_id>>

\* self.selector.execute_selection(&population, &scores)
NsgaSelect ==
  /\ pc = "nsga_select"
  /\ selected' \in execute_selection(Len(population))
  /\ pc' = "nsga_recombine"
  /\ UNCHANGED <<domVars, callVars, execVars, population, scores, archive, archive_scores,
                 initial_population_size, archive_size, terminator, created,
                 created_scores, next_id, result, hist>>

\* self.recombinator.execute_recombination(selected_population)
NsgaRecombine ==
  /\ pc = "nsga_recombine"
  /\ \E c \in 0..MaxOffspring :
       /\ created' = execute_recombination(next_id, c)
       /\ next_id' = next_id + c
  /\ selected' = <<>>
  /\ pc' = "nsga_mutate"
  /\ UNCHANGED <<domVars, callVars, execVars, population, scores, archive, archive_scores,
                 initial_population_size, archive_size, terminator,
                 created_scores, result, hist>>

\* self.mutator.execute_mutations(&mut created_population)
NsgaMutate ==
  /\ pc = "nsga_mutate"
  /\ created' = execute_mutations(created)
  /\ pc' = "nsga_test_created"
  /\ UNCHANGED <<domVars, callVars, execVars, population, scores, archive, archive_scores,
                 initial_population_size, archive_size, terminator, selected,
                 created_scores, next_id, result, hist>>

\* let mut created_scores = self.tester.execute_tests(&created_population)
NsgaTestCreated ==
  /\ pc = "nsga_test_created"
  /\ \E out \in execute_tests(Len(created)) :
       /\ created_scores' = out
       /\ hist' = [hist EXCEPT !.tests = Append(@, TestCall(Len(created), Len(out)))]
  /\ pc' = "nsga_truncate"
  /\ UNCHANGED <<domVars, callVars, execVars, population, scores, archive, archive_scores,
                 initial_population_size, archive_size, terminator, selected,
                 created, next_id, result>>

\* the loop body after the truncation returned r
NsgaTruncated(r) ==
  IF r.kind = "ok"
  THEN /\ population' = r.sols
       /\ scores' = r.scs
       /\ pc' = "nsga_terminate"
       /\ hist' = [hist EXCEPT !.gens = @ + 1]
       /\ UNCHANGED result
  ELSE /\ population' = population \o created
       /\ scores' = scores \o created_scores
       /\ pc' = (IF r.kind = "hang" THEN "hung" ELSE "panicked")
       /\ result' = r
       /\ UNCHANGED hist

\* population.append(..); scores.append(..);
\* (population, scores) = self.crowding_distance_selection(population, scores)
NsgaTruncate ==
  /\ pc = "nsga_truncate"
  /\ NsgaTruncated(crowding_distance_selection(population \o created,
                                               scores \o created_scores,
                                               initial_population_size))
  /\ created' = <<>>
  /\ created_scores' = <<>>
  /\ UNCHANGED <<domVars, callVars, execVars, archive, archive_scores, initial_population_size,
                 archive_size, terminator, selected, next_id>>

NsgaNext ==
  \/ NsgaTestPopulation
  \/ NsgaTerminate
  \/ NsgaSelect
  \/ NsgaRecombine
  \/ NsgaMutate
  \/ NsgaTestCreated
  \/ NsgaTruncate

SpecNsga == NsgaInit /\ [][NsgaNext]_vars

\* every call of the tester so far returned one score vector per solution
Matched == \A i \in DOMAIN hist.tests : hist.tests[i].returned = hist.tests[i].given

\* the last call of the tester was made on offspring and returned a number
\* of score vectors other than the number of offspring
OffspringMismatch ==
  /\ Len(hist.tests) >= 2
  /\ hist.tests[Len(hist.tests)].returned # hist.tests[Len(hist.tests)].given

\* C4: while the tester returns one score vector per solution, an NSGA-II run
\* holds initial_population_size solutions and as many score vectors when
\* the terminator is consulted (before the first generation and at the end
\* of every generation) and when optimize() returns them, whatever the
\* selector returned and however many offspring were created; the
\* truncation neither panics nor loops on the way.
C4_PopulationSize ==
  Matched =>
    /\ pc = "nsga_terminate" =>
          /\ Len(population) = initial_population_size
          /\ Len(scores) = initial_population_size
    /\ pc = "returned" =>
          /\ result.kind = "ok"
          /\ Len(result.value) = initial_population_size
    /\ pc \notin {"panicked", "hung"}

\* a run of MaxGen generations with a matching tester has returned: one
\* generation created no offspring, another created MaxOffspring, and an
\* offspring has displaced a member of the initial population
C4_Witness ==
  /\ pc = "returned" /\ Matched /\ hist.gens = MaxGen
  /\ initial_population_size = MaxPop
  /\ \E i \in 2..Len(hist.tests) : hist.tests[i].given = 0
  /\ \E i \in 2..Len(hist.tests) : hist.tests[i].given = MaxOffspring
  /\ \E k \in DOMAIN result.value : result.value[k].id > initial_population_size

\* C13: after every NSGA-II truncation the next generation starts with the
\* first front: no solution of the combined population, of which the next
\* generation is a part, dominates the solution at index 0.
C13_FirstFrontFirst ==
  (pc = "nsga_terminate" /\ hist.gens >= 1 /\ Matched) =>
    \A j \in DOMAIN scores : ~Dominates(scores[j], scores[1])

\* C10: once the tester has returned a wrong number of score vectors for
\* the offspring, fewer or more, an NSGA-II run gets no further than the
\* truncation of that generation: it panics there, completes no generation
\* and returns no population.
C10_OffspringMismatchPanics ==
  OffspringMismatch => pc \in {"nsga_truncate", "panicked"}

-----------------------------------------------------------------------------
(* SPEA-II: src/optimizer/spea.rs, Spea2::optimize *)

\* the optimizer as built: the builder takes any population and any
\* archive_size
SpeaInit ==
  /\ CallIdle
  /\ pc = "spea_test"
  /\ DomIdle
  /\ ExecIdle
  /\ \E n \in 0..MaxPop :
       /\ population = Population(n)
       /\ next_id = n + 1
  /\ archive_size \in 0..MaxArchive
  /\ initial_population_size = 0
  /\ scores = <<>>
  /\ archive = <<>> /\ archive_scores = <<>>
  /\ terminator \in Terminators
  /\ selected = <<>> /\ created = <<>> /\ created_scores = <<>>
  /\ result = [kind |-> "none"]
  /\ hist = NoHistory(terminator)

\* let mut population_scores = self.tester.execute_tests(&population)
SpeaTestPopulation ==
  /\ pc = "spea_test"
  /\ \E out \in execute_tests(Len(population)) :
       /\ scores' = out
       /\ hist' = [hist EXCEPT !.tests = Append(@, TestCall(Len(population), Len(out)))]
  /\ pc' = "spea_terminate"
  /\ UNCHANGED <<domVars, callVars, execVars, population, archive, archive_scores,
                 initial_population_size, archive_size, terminator, selected,
                 created, created_scores, next_id, result>>

\* while !self.terminator.execute_termination(&archive, &archive_scores)
SpeaTerminate ==
  /\ pc = "spea_terminate"
  /\ \E t \in execute_termination(terminator, hist.gens) :
       /\ terminator' = t.next
       /\ pc' = (IF t.stop THEN "spea_extract" ELSE "spea_merge")
  /\ hist' = [hist EXCEPT !.terms = @ + 1]
  /\ UNCHANGED <<domVars, callVars, execVars, population, scores, archive, archive_scores,
                 initial_population_size, archive_size, selected, created,
                 created_scores, next_id, result>>

\* archive.append(&mut population); archive_scores.append(..) and the two
\* checks that return an error
SpeaMerge ==
  /\ pc = "spea_merge"
  /\ archive' = archive \o population
  /\ archive_scores' = archive_scores \o scores
  /\ population' = <<>>
  /\ scores' = <<>>
  /\ IF archive' = <<>>
     THEN /\ pc' = "returned"
          /\ result' = [kind |-> "err", error |-> "PopulationEmpty"]
     ELSE IF Len(archive_scores') # Len(archive')
     THEN /\ pc' = "returned"
          /\ result' = [kind |-> "err", error |-> "ScoreCountMismatch",
                        actual |-> Len(archive_scores'),
                        expected |-> Len(archive')]
     ELSE /\ pc' = "spea_select_env"
          /\ UNCHANGED result
  /\ UNCHANGED <<domVars, callVars, execVars, initial_population_size, archive_size, terminator,
                 selected, created, created_scores, next_id, hist>>

\* the loop body after the environmental selection returned r; the survivors
\* are the archive of the next generation
SpeaSurvived(r) ==
  IF r.kind = "ok"
  THEN /\ archive' = r.sols
       /\ archive_scores' = r.scs
       /\ pc' = "spea_select"
       /\ hist' = [hist EXCEPT !.env = [merged |-> Len(archive),
                                        nondommed_cnt |-> r.nondommed_cnt]]
       /\ UNCHANGED result
  ELSE /\ pc' = "panicked"
       /\ result' = r
       /\ UNCHANGED <<archive, archive_scores, hist>>

\* self.environmental_selection(archive, archive_scores)
SpeaEnvironmentalSelection ==
  /\ pc = "spea_select_env"
  /\ \E r \in environmental_selection(archive, archive_scores, archive_size) :
       SpeaSurvived(r)
  /\ UNCHANGED <<domVars, callVars, execVars, population, scores, initial_population_size,
                 archive_size, terminator, selected, created, created_scores,
                 next_id>>

\* self.selector.execute_selection(&survived_solutions, &survived_scores)
SpeaSelect ==
  /\ pc = "spea_select"
  /\ selected' \in execute_selection(Len(archive))
  /\ pc' = "spea_recombine"
  /\ UNCHANGED <<domVars, callVars, execVars, population, scores, archive, archive_scores,
                 initial_population_size, archive_size, terminator, created,
                 created_scores, next_id, result, hist>>

\* self.recombinator.execute_recombination(selected_solutions)
SpeaRecombine ==
  /\ pc = "spea_recombine"
  /\ \E c \in 0..MaxOffspring :
       /\ created' = execute_recombination(next_id, c)
       /\ next_id' = next_id + c
  /\ selected' = <<>>
  /\ pc' = "spea_mutate"
  /\ UNCHANGED <<domVars, callVars, execVars, population, scores, archive, archive_scores,
                 initial_population_size, archive_size, terminator,
                 created_scores, result, hist>>

\* self.mutator.execute_mutations(&mut created_solutions)
SpeaMutate ==
  /\ pc = "spea_mutate"
  /\ created' = execute_mutations(created)
  /\ pc' = "spea_test_created"
  /\ UNCHANGED <<domVars, callVars, execVars, population, scores, archive, archive_scores,
                 initial_population_size, archive_size, terminator, selected,
                 created_scores, next_id, result, hist>>

\* let created_scores = self.tester.execute_tests(&created_solutions) and
\* the assignments that end the loop body
SpeaTestCreated ==
  /\ pc = "spea_test_created"
  /\ \E out \in execute_tests(Len(created)) :
       /\ scores' = out
       /\ hist' = [hist EXCEPT
                     !.tests = Append(@, TestCall(Len(created), Len(out))),
                     !.gens = @ + 1]
  /\ population' = created
  /\ created' = <<>>
  /\ pc' = "spea_terminate"
  /\ UNCHANGED <<domVars, callVars, execVars, archive, archive_scores, initial_population_size,
                 archive_size, terminator, selected, created_scores, next_id,
                 result>>

\* the final extraction and Ok(..)
SpeaExtract ==
  /\ pc = "spea_extract"
  /\ result' = final_extraction(archive, archive_scores)
  /\ pc' = (IF result'.kind = "ok" THEN "returned" ELSE "panicked")
  /\ UNCHANGED <<domVars, callVars, execVars, population, scores, archive, archive_scores,
                 initial_population_size, archive_size, terminator, selected,
                 created, created_scores, next_id, hist>>

SpeaNext ==
  \/ SpeaTestPopulation
  \/ SpeaTerminate
  \/ SpeaMerge
  \/ SpeaEnvironmentalSelection
  \/ SpeaSelect
  \/ SpeaRecombine
  \/ SpeaMutate
  \/ SpeaTestCreated
  \/ SpeaExtract

SpecSpea == SpeaInit /\ [][SpeaNext]_vars

\* the positions of the score vectors of scs that no other one dominates
NonDominated(scs) ==
  {i \in DOMAIN scs : ~\E j \in DOMAIN scs : Dominates(scs[j], scs[i])}

\* C5: whenever the environmental selection returns, the surviving archive
\* has at most archive_size members and as many score vectors: exactly
\* archive_size when more than archive_size members of the merged archive
\* are non-dominated, and min(M, archive_size) otherwise, M being the size
\* of the merged archive.
C5_ArchiveBound ==
  [][(pc = "spea_select_env" /\ pc' = "spea_select") =>
       /\ Len(archive') <= archive_size
       /\ Len(archive_scores') = Len(archive')
       /\ Len(archive') =
            (IF Cardinality(NonDominated(archive_scores)) > archive_size
             THEN archive_size
             ELSE Min2(Len(archive), archive_size))]_vars

\* the selection has returned archive_size >= 1 survivors of a merged
\* archive in which more than archive_size members were non-dominated
C5_Witness ==
  /\ pc = "spea_select"
  /\ archive_size >= 1
  /\ hist.env.nondommed_cnt > archive_size
  /\ hist.env.merged > hist.env.nondommed_cnt
  /\ Len(archive) = archive_size

\* C6: when optimize() returns Ok(v), v is not empty and holds exactly the
\* members of the final archive that no other member of it dominates.
C6_FinalExtraction ==
  (pc = "returned" /\ result.kind = "ok") =>
    /\ archive # <<>>
    /\ result.value # <<>>
    /\ Range(result.value) = {archive[i] : i \in NonDominated(archive_scores)}
    /\ Len(result.value) = Cardinality(NonDominated(archive_scores))

\* optimize() has returned two members of a final archive of three, the
\* third being dominated
C6_Witness ==
  /\ pc = "returned" /\ result.kind = "ok"
  /\ Len(archive) = 3
  /\ Len(result.value) = 2

\* the optimizer was built on a population that is not empty, with an
\* archive_size of 1 or more and with GenerationTerminator(k), k >= 1, and
\* every call of the tester returned one score vector per solution
GenerationRun ==
  /\ hist.built.kind = "GenerationTerminator" /\ hist.built.n >= 1
  /\ archive_size >= 1
  /\ hist.tests # <<>> /\ hist.tests[1].given >= 1
  /\ Matched

\* C7: a SPEA-II run built with GenerationTerminator(k), k >= 1, whose
\* operators do not fail: the terminator answers false k times and true
\* the (k+1)-th time, so the run does not end before that, and when it has
\* ended the loop body has run k times and the tester was called k + 1
\* times, on the initial population and on the offspring of each generation.
C7_GenerationCount ==
  GenerationRun =>
    /\ terminator.n = hist.built.n - Min2(hist.terms, hist.built.n)
    /\ hist.gens <= hist.built.n
    /\ pc \notin {"panicked", "hung"}
    /\ pc = "returned" =>
          /\ result.kind = "ok"
          /\ hist.terms = hist.built.n + 1
          /\ hist.gens = hist.built.n
          /\ Len(hist.tests) = hist.built.n + 1

\* C8: a SPEA-II run never panics on an empty archive or on a number of
\* score vectors that differs from the number of solutions: for every
\* initial population, archive_size and terminator, these end the call
\* with a returned value.
C8_NoPanic ==
  pc = "panicked" =>
    /\ archive # <<>>
    /\ Len(archive_scores) = Len(archive)

\* C9: when optimize() returns Err(ScoreCountMismatch { actual, expected }),
\* actual is the number of score vectors the last call of the tester
\* returned and expected is the number of solutions it was given, in
\* whichever generation.
C9_MismatchCounts ==
  (pc = "returned" /\ result.kind = "err" /\ result.error = "ScoreCountMismatch") =>
    /\ result.actual = hist.tests[Len(hist.tests)].returned
    /\ result.expected = hist.tests[Len(hist.tests)].given

\* the positions of a loop body before its end
SpeaBody ==
  {"spea_select_env", "spea_select", "spea_recombine", "spea_mutate",
   "spea_test_created"}

\* C12: a SPEA-II run whose terminator has not returned true returns
\* Err(PopulationEmpty) as soon as the merged archive is empty at the start
\* of a generation.  Built on an empty population it does so in the first
\* generation; built with archive_size = 0 the environmental selection of
\* the first generation keeps nothing and, no offspring being produced, it
\* does so in the second generation.  The generation that reports the error
\* runs no selection, recombination, mutation or test.
C12_PopulationEmpty ==
  /\ pc = "spea_select_env" => archive # <<>>
  /\ (pc = "returned" /\ result.kind = "err" /\ result.error = "PopulationEmpty") =>
       /\ archive = <<>>
       /\ hist.terms = hist.gens + 1
       /\ Len(hist.tests) = hist.gens + 1
       /\ selected = <<>> /\ created = <<>>
  /\ (hist.tests # <<>> /\ hist.tests[1].given = 0) =>
       /\ pc \notin SpeaBody
       /\ hist.gens = 0
       /\ pc = "returned" => result = [kind |-> "err", error |-> "PopulationEmpty"]
  /\ (archive_size = 0 /\ hist.tests # <<>> /\ hist.tests[1].given >= 1
        /\ hist.tests[1].returned = hist.tests[1].given) =>
       /\ (pc \in SpeaBody \ {"spea_select_env"}) => archive = <<>>
       /\ (Len(hist.tests) >= 2 /\ hist.tests[2].given = 0) =>
            /\ pc \notin SpeaBody
            /\ hist.gens = 1
            /\ pc = "returned" => result = [kind |-> "err", error |-> "PopulationEmpty"]

\* built with archive_size = 0 on MaxPop solutions, the run has returned
\* Err(PopulationEmpty) in its second generation
C12_Witness ==
  /\ pc = "returned" /\ result = [kind |-> "err", error |-> "PopulationEmpty"]
  /\ archive_size = 0
  /\ hist.tests[1].given = MaxPop
  /\ hist.gens = 1 /\ hist.terms = 2

-----------------------------------------------------------------------------
(* The builders: Nsga2::builder() .. build() and Spea2::builder() .. build(), *)
(* followed by the run of the optimizer that was built.                       *)

\* archive_size when the setter was not called
NotSet == 0 - 1

\* what the caller hands to a builder: any population, any terminator and,
\* for SPEA-II, any archive_size or none
BuildInit ==
  /\ CallIdle
  /\ pc \in {"nsga_build", "spea_build"}
  /\ DomIdle
  /\ ExecIdle
  /\ \E n \in 0..MaxPop :
       /\ population = Population(n)
       /\ next_id = n + 1
  /\ archive_size \in (IF pc = "spea_build" THEN NotSet..MaxArchive ELSE {0})
  /\ initial_population_size = 0
  /\ scores = <<>>
  /\ archive = <<>> /\ archive_scores = <<>>
  /\ terminator \in Terminators
  /\ selected = <<>> /\ created = <<>> /\ created_scores = <<>>
  /\ result = [kind |-> "none"]
  /\ hist = NoHistory(terminator)

\* Nsga2: the population setter panics on an empty vector;
\* initial_population_size defaults to population.len()
NsgaBuild ==
  /\ pc = "nsga_build"
  /\ IF population = <<>>
     THEN /\ pc' = "panicked"
          /\ result' = [kind |-> "panic", msg |-> "initial population is empty"]
          /\ UNCHANGED initial_population_size
     ELSE /\ pc' = "nsga_test"
          /\ initial_population_size' = Len(population)
          /\ UNCHANGED result
  /\ UNCHANGED <<domVars, callVars, execVars, population, scores, archive, archive_scores,
                 archive_size, terminator, selected, created, created_scores,
                 next_id, hist>>

\* Spea2: the fields are taken as given; archive_size defaults to
\* population.len()
SpeaBuild ==
  /\ pc = "spea_build"
  /\ archive_size' = (IF archive_size = NotSet THEN Len(population) ELSE archive_size)
  /\ pc' = "spea_test"
  /\ UNCHANGED <<domVars, callVars, execVars, population, scores, archive, archive_scores,
                 initial_population_size, terminator, selected, created,
                 created_scores, next_id, result, hist>>

BuildNext ==
  \/ NsgaBuild
  \/ SpeaBuild
  \/ NsgaNext
  \/ SpeaNext

SpecBuild == BuildInit /\ [][BuildNext]_vars

\* C11: an optimizer on which optimize() can be called holds a population
\* that is not empty and, for SPEA-II, an archive_size of 1 or more: a
\* builder handed an empty population, or the SPEA-II builder handed
\* archive_size = 0, fails and yields no optimizer.
C11_BuildersReject ==
  /\ pc = "nsga_test" => population # <<>>
  /\ pc = "spea_test" => (population # <<>> /\ archive_size >= 1)

-----------------------------------------------------------------------------
(* The operator executors: src/testing.rs, src/selection.rs,                 *)
(* src/termination.rs, src/recombination.rs.  One call of one executor is    *)
(* followed.  The input is the list of solutions 1..n (for a recombination,  *)
(* the references to n parents); a per-item operator is a function of the    *)
(* solution.  The parallel executors hand pieces of the input to the worker  *)
(* threads of the rayon pool, which process them in any order.               *)

Max2(x, y) == IF x >= y THEN x ELSE y

\* values a per-item test returns
TestScores == {0, 1}

\* the concatenation of the sequences of a sequence
RECURSIVE flatten(_)
flatten(ss) == IF ss = <<>> THEN <<>> ELSE Head(ss) \o flatten(Tail(ss))

\* Iterator::map(|s| operator.test(s))
map_test(s, op) == [i \in 1..Len(s) |-> op[s[i]]]

\* Iterator::filter_map(|(sol, sc)| operator.select(sol, sc).then_some(sol))
RECURSIVE filter_map(_, _)
filter_map(s, op) ==
  IF s = <<>> THEN <<>>
  ELSE IF op[Head(s)] THEN <<Head(s)>> \o filter_map(Tail(s), op)
  ELSE filter_map(Tail(s), op)

\* Iterator::any(|(sol, sc)| operator.terminate(sol, sc)): the solutions the
\* predicate is invoked on, the first being s[i]
RECURSIVE any_calls(_, _, _)

\* the predicate invoked on every solution from s[i] on
any_calls_all(s, op, i) == Slice(s, i, Len(s))

any_calls(s, op, i) ==
  IF i > Len(s) THEN <<>>
  ELSE IF op[s[i]] THEN <<s[i]>>
  ELSE <<s[i]>> \o any_calls(s, op, i + 1)

\* the answer of Iterator::any after the invocations cs
any_found(cs, op) == cs # <<>> /\ op[cs[Len(cs)]]

\* Itertools::combinations(k) of the positions lo..hi
RECURSIVE combinations(_, _, _)

\* the combinations that hold the position lo only
combinations_of_first(lo, hi, k) ==
  IF k = 0 THEN << <<>> >>
  ELSE IF lo > hi THEN <<>>
  ELSE [i \in 1..Len(combinations(lo + 1, hi, k - 1)) |->
          <<lo>> \o combinations(lo + 1, hi, k - 1)[i]]

combinations(lo, hi, k) ==
  IF k = 0 THEN << <<>> >>
  ELSE IF lo > hi THEN <<>>
  ELSE [i \in 1..Len(combinations(lo + 1, hi, k - 1)) |->
          <<lo>> \o combinations(lo + 1, hi, k - 1)[i]]
         \o combinations(lo + 1, hi, k)

\* Recombination::recombine: the O offspring of one combination of parents
recombine(c, O) == [k \in 1..O |-> [parents |-> c, child |-> k]]

\* the length divided by the number of threads, rounded up
chunk_size_ceil(len, t) == Max2((len + t - 1) \div t, 1)

\* let chunk_size = (solutions.len() / rayon::current_num_threads()).max(1)
chunk_size(len, t) == Max2(len \div t, 1)

\* slice::chunks / par_chunks
RECURSIVE slice_chunks(_, _)
slice_chunks(s, size) ==
  IF s = <<>> THEN <<>>
  ELSE <<Slice(s, 1, Min2(size, Len(s)))>>
         \o slice_chunks(Slice(s, size + 1, Len(s)), size)

\* "selector" is a call of the selection executor with a stock Selector
Stages ==
  {"test", "selection", "termination", "recombination", "selector", "mutation"}

\* the strategies the executors of a stage are implemented for
Strategies(st) ==
  IF st = "recombination" THEN {"Sequential"}
  ELSE IF st = "selector" THEN {"Custom"}
  ELSE {"Sequential", "ParallelEach", "ParallelBatch"}

\* the stock selectors of src/selection.rs; the two fields of a tournament
\* selector are NonZero
Selectors ==
  {[kind |-> "AllSelector", n |-> 0, k |-> 0]}
    \cup {[kind |-> s, n |-> n, k |-> 0] :
            s \in {"FirstSelector", "RandomSelector", "RouletteSelector"},
            n \in 0..MaxPick}
    \cup {[kind |-> s, n |-> n, k |-> k] :
            s \in {"TournamentSelectorWithoutReplacement",
                   "TournamentSelectorWithReplacement"},
            n \in 1..MaxPick, k \in 1..MaxTournament}

\* the operators of a stage on solutions 1..n
Operators(st, n) ==
  IF st = "test" THEN [1..n -> TestScores]
  ELSE IF st = "recombination"
  THEN {[P |-> p, O |-> o] : p \in 1..MaxParents, o \in 1..MaxChildren}
  ELSE IF st = "selector" THEN Selectors
  ELSE IF st = "mutation" THEN {<<>>}
  ELSE [1..n -> BOOLEAN]

\* the scores handed over with n solutions; only the stock selectors look
\* at them
ItemScores(st, n) ==
  IF st = "selector" THEN [1..n -> EngScores] ELSE {[i \in 1..n |-> <<0, 0>>]}

\* the slice handed to the executor: references to solutions 1..n, or the
\* newly created solutions themselves when they are to be mutated in place
Items(st, n) ==
  IF st = "mutation" THEN Population(n) ELSE [i \in 1..n |-> i]

ExecInit ==
  /\ CallIdle
  /\ pc = "execute"
  /\ DomIdle
  /\ RunIdle
  /\ stage \in Stages
  /\ strategy \in Strategies(stage)
  /\ \E n \in 0..MaxLen :
       /\ items = Items(stage, n)
       /\ item_scores \in ItemScores(stage, n)
       /\ operator \in Operators(stage, n)
  /\ threads \in 1..MaxThreads
  /\ chunks = <<>> /\ pending = {} /\ workers = <<>>
  /\ calls = <<>> /\ output = <<>>

\* SequentialExecutionStrategy: solutions.iter().map(..).collect()
SequentialTests ==
  /\ pc = "execute" /\ stage = "test" /\ strategy = "Sequential"
  /\ calls' = items
  /\ output' = map_test(items, operator)
  /\ pc' = "executed"
  /\ UNCHANGED <<domVars, callVars, runVars, stage, strategy, items, item_scores, threads, operator,
                 chunks, pending, workers>>

\* SequentialExecutionStrategy: solutions.iter().zip(scores).filter_map(..)
SequentialSelection ==
  /\ pc = "execute" /\ stage = "selection" /\ strategy = "Sequential"
  /\ calls' = items
  /\ output' = filter_map(items, operator)
  /\ pc' = "executed"
  /\ UNCHANGED <<domVars, callVars, runVars, stage, strategy, items, item_scores, threads, operator,
                 chunks, pending, workers>>

\* SequentialExecutionStrategy: solutions.iter().zip(scores).any(..)
SequentialTermination ==
  /\ pc = "execute" /\ stage = "termination" /\ strategy = "Sequential"
  /\ calls' = any_calls(items, operator, 1)
  /\ output' = any_found(calls', operator)
  /\ pc' = "executed"
  /\ UNCHANGED <<domVars, callVars, runVars, stage, strategy, items, item_scores, threads, operator,
                 chunks, pending, workers>>

\* SequentialExecutionStrategy: parents.iter().copied().combinations(P)
\* .flat_map(|c| self.recombine(c)).collect()
SequentialRecombination ==
  /\ pc = "execute" /\ stage = "recombination" /\ strategy = "Sequential"
  /\ calls' = combinations(1, Len(items), operator.P)
  /\ output' = flatten([i \in 1..Len(calls') |-> recombine(calls'[i], operator.O)])
  /\ pc' = "executed"
  /\ UNCHANGED <<domVars, callVars, runVars, stage, strategy, items, item_scores, threads, operator,
                 chunks, pending, workers>>

\* the parallel executors: par_iter() hands out single solutions,
\* SequentialExecutionStrategy: solutions.iter_mut().for_each(|s| self.mutate(s))
SequentialMutation ==
  /\ pc = "execute" /\ stage = "mutation" /\ strategy = "Sequential"
  /\ calls' = items
  /\ output' = execute_mutations(items)
  /\ pc' = "executed"
  /\ UNCHANGED <<domVars, callVars, runVars, stage, strategy, items, item_scores,
                 threads, operator, chunks, pending, workers>>

\* par_chunks(chunk_size) and chunks(chunk_size) hand out chunks
ParallelSplit ==
  /\ pc = "execute" /\ strategy \in {"ParallelEach", "ParallelBatch"}
  /\ chunks' = slice_chunks(items,
                             IF strategy = "ParallelBatch"
                             THEN chunk_size(Len(items), threads) ELSE 1)
  /\ pending' = 1..Len(chunks')
  /\ workers' = [w \in 1..threads |-> <<>>]
  /\ pc' = "running"
  /\ UNCHANGED <<domVars, callVars, runVars, stage, strategy, items, item_scores, threads, operator,
                 calls, output>>

\* whether the pieces go through par_bridge(): the worker threads then pull
\* them from one shared sequential iterator
Bridged == strategy = "ParallelBatch" /\ stage \in {"selection", "termination"}

\* what a worker makes of the piece c
chunk_output(st, c, op) ==
  IF st = "test" THEN map_test(c, op)
  ELSE IF st = "selection" THEN filter_map(c, op)
  ELSE IF st = "mutation" THEN execute_mutations(c)
  ELSE <<any_found(any_calls(c, op, 1), op)>>

\* the solutions the operator is invoked on for the piece c
chunk_calls(st, c, op) ==
  IF st = "termination" THEN any_calls(c, op, 1) ELSE c

\* a worker thread takes a piece, any pending one or, behind par_bridge(),
\* the next one of the iterator, and applies the operator to its solutions
WorkerRun ==
  /\ pc = "running"
  /\ \E w \in 1..threads, k \in pending :
       /\ Bridged => \A j \in pending : k <= j
       /\ workers' = [workers EXCEPT ![w] =
                        Append(@, [chunk |-> k,
                                   out |-> chunk_output(stage, chunks[k], operator)])]
       /\ calls' = calls \o chunk_calls(stage, chunks[k], operator)
       /\ pending' = pending \ {k}
  /\ UNCHANGED <<pc, domVars, callVars, runVars, stage, strategy, items, item_scores, threads,
                 operator, chunks, output>>

\* the pieces processed so far
Entries(ws) == UNION {Range(ws[w]) : w \in DOMAIN ws}

\* a worker has found a solution that satisfies the termination predicate
Found(ws) == \E e \in Entries(ws) : e.out = <<TRUE>>

\* the results of each worker in the order it produced them, worker by worker
collect_by_worker(ws, n) ==
  flatten([w \in 1..Len(ws) |->
             flatten([e \in 1..Len(ws[w]) |-> ws[w][e].out])])

\* collect() of an indexed parallel iterator: the results in the order of
\* the n pieces
collect_indexed(ws, n) ==
  flatten([k \in 1..n |-> (CHOOSE e \in Entries(ws) : e.chunk = k).out])

\* collect() behind par_bridge(): every worker folds the pieces it pulled,
\* and the folds are joined worker by worker
collect_bridged(ws, n) == collect_by_worker(ws, n)

\* collect() and any(): the result of the parallel executor.  any() answers
\* as soon as one worker has found a solution.
ParallelCollect ==
  /\ pc = "running"
  /\ IF stage = "termination"
     THEN /\ pending = {} \/ Found(workers)
          /\ output' = Found(workers)
     ELSE /\ pending = {}
          /\ output' = (IF Bridged THEN collect_bridged(workers, Len(chunks))
                        ELSE collect_indexed(workers, Len(chunks)))
  /\ pc' = "executed"
  /\ UNCHANGED <<domVars, callVars, runVars, stage, strategy, items, item_scores, threads, operator,
                 chunks, pending, workers, calls>>

\* the sequences of m distinct members of S: what shuffle, index::sample
\* and choose_multiple may draw
Injections(S, m) ==
  {s \in [1..m -> S] : \A i, j \in 1..m : i # j => s[i] # s[j]}

\* a slip of the fold that gives way to every candidate that is not worse
RECURSIVE min_by_from_last(_, _, _, _)
min_by_from_last(c, scs, i, best) ==
  IF i > Len(c) THEN <<best>>
  ELSE min_by_from_last(c, scs, i + 1,
         IF dominance(scs[best], scs[c[i]]) # "Less" THEN c[i] ELSE best)

\* the fold of Iterator::min_by over the candidates c from position i on:
\* the kept candidate gives way only when the comparison says Greater
RECURSIVE min_by_from(_, _, _, _)
min_by_from(c, scs, i, best) ==
  IF i > Len(c) THEN <<best>>
  ELSE min_by_from(c, scs, i + 1,
         IF dominance(scs[best], scs[c[i]]) = "Greater" THEN c[i] ELSE best)

\* chunk.iter().min_by(|i, j| scores[i].dominance(&scores[j])): <<>> is None
min_by(c, scs) == IF c = <<>> THEN <<>> ELSE min_by_from(c, scs, 2, c[1])

\* the winners of the tournaments ts, in order; None ends in expect()
tournament_winners(ts, scs) == [t \in DOMAIN ts |-> min_by(ts[t], scs)]

\* the result of a selector call: the references it returns, with the
\* tournaments it held, or the message of its panic
Selected(sols, ts, winners) ==
  IF \E t \in DOMAIN winners : winners[t] = <<>>
  THEN [kind |-> "panic", calls |-> ts, out |-> <<"chunk must not be empty">>]
  ELSE [kind |-> "ok", calls |-> ts,
        out |-> [t \in DOMAIN winners |-> sols[winners[t][1]]]]

\* AllSelector::select
select_all(sols) == {[kind |-> "ok", calls |-> <<>>, out |-> sols]}

\* FirstSelector::select
select_first(sols, n) ==
  {[kind |-> "ok", calls |-> <<>>, out |-> Slice(sols, 1, Min2(n, Len(sols)))]}

\* RandomSelector::select
select_random(sols, n) ==
  {[kind |-> "ok", calls |-> <<>>, out |-> [i \in DOMAIN s |-> sols[s[i]]]] :
     s \in Injections(DOMAIN sols, Min2(n, Len(sols)))}

\* the domination counts of RouletteSelector::select
sol_dominations(scs) ==
  [p \in DOMAIN scs |->
     Cardinality({q \in DOMAIN scs :
        \/ p < q /\ dominance(scs[p], scs[q]) = "Less"
        \/ q < p /\ dominance(scs[q], scs[p]) = "Greater"})]

\* RouletteSelector::select: a member of weight zero is drawn only once
\* every member of positive weight has been
select_roulette(sols, scs, n, w) ==
  {[kind |-> "ok", calls |-> <<>>, out |-> [i \in DOMAIN s |-> sols[s[i]]]] :
     s \in {r \in Injections(DOMAIN sols, Min2(n, Len(sols))) :
              (\E i \in DOMAIN r : w[r[i]] = 0)
                => \A q \in DOMAIN sols : w[q] > 0 => q \in Range(r)}}

\* a slip of the tournament with replacement that holds no round on an
\* empty population
select_with_replacement_lenient(sols, scs, n, k) ==
  {Selected(sols, rounds, tournament_winners(rounds, scs)) :
     rounds \in [1..(IF sols = <<>> THEN 0 ELSE n)
                   -> Injections(DOMAIN sols, Min2(k, Len(sols)))]}

\* TournamentSelectorWithoutReplacement::select
select_without_replacement(sols, scs, n, k) ==
  {Selected(sols, Slice(slice_chunks(perm, k), 1,
                        Min2(n, Len(slice_chunks(perm, k)))),
            tournament_winners(Slice(slice_chunks(perm, k), 1,
                                     Min2(n, Len(slice_chunks(perm, k)))), scs)) :
     perm \in Injections(DOMAIN sols, Len(sols))}

\* TournamentSelectorWithReplacement::select
select_with_replacement(sols, scs, n, k) ==
  {Selected(sols, rounds, tournament_winners(rounds, scs)) :
     rounds \in [1..n -> Injections(DOMAIN sols, Min2(k, Len(sols)))]}

\* Selector::select of the stock selector op
select(op, sols, scs) ==
  CASE op.kind = "AllSelector" -> select_all(sols)
    [] op.kind = "FirstSelector" -> select_first(sols, op.n)
    [] op.kind = "RandomSelector" -> select_random(sols, op.n)
    [] op.kind = "RouletteSelector" ->
         select_roulette(sols, scs, op.n, sol_dominations(scs))
    [] op.kind = "TournamentSelectorWithoutReplacement" ->
         select_without_replacement(sols, scs, op.n, op.k)
    [] op.kind = "TournamentSelectorWithReplacement" ->
         select_with_replacement(sols, scs, op.n, op.k)

\* CustomExecutionStrategy: self.select(solutions, scores)
CustomSelection ==
  /\ pc = "execute" /\ stage = "selector" /\ strategy = "Custom"
  /\ \E r \in select(operator, items, item_scores) :
       /\ calls' = r.calls
       /\ output' = r.out
       /\ pc' = (IF r.kind = "panic" THEN "panicked" ELSE "executed")
  /\ UNCHANGED <<domVars, callVars, runVars, stage, strategy, items, item_scores, threads, operator,
                 chunks, pending, workers>>

ExecNext ==
  \/ SequentialTests
  \/ SequentialSelection
  \/ SequentialTermination
  \/ SequentialRecombination
  \/ SequentialMutation
  \/ CustomSelection
  \/ ParallelSplit
  \/ WorkerRun
  \/ ParallelCollect

SpecExec == ExecInit /\ [][ExecNext]_vars

\* the solutions of s that satisfy the predicate op
Satisfying(s, op) == {s[i] : i \in {j \in DOMAIN s : op[s[j]]}}

\* s is strictly ascending
Ascending(s) == \A i, j \in DOMAIN s : i < j => s[i] < s[j]

\* C14: for a per-item test operator t, the sequential, the parallel-each
\* and the parallel-batch test executor return, for every input of length
\* n >= 0 and every number of worker threads, n score vectors, the i-th
\* being t(solutions[i]).
C14_TestsAligned ==
  (pc = "executed" /\ stage = "test") =>
    /\ Len(output) = Len(items)
    /\ \A i \in DOMAIN items : output[i] = operator[items[i]]

\* the parallel-batch test executor has returned for MaxLen solutions and
\* MaxThreads workers, the first chunk not being the first one processed,
\* and the scores of the first and the last solution differ
C14_Witness ==
  /\ pc = "executed" /\ stage = "test" /\ strategy = "ParallelBatch"
  /\ Len(items) = MaxLen /\ threads = MaxThreads
  /\ calls[1] # items[1]
  /\ operator[items[1]] # operator[items[MaxLen]]

\* C15: for a per-item selection predicate every execution strategy
\* returns, however the worker threads are scheduled, exactly the solutions
\* that satisfy the predicate, each once and in population index order.
C15_SelectionInOrder ==
  (pc = "executed" /\ stage = "selection") =>
    /\ Range(output) = Satisfying(items, operator)
    /\ Ascending(output)

\* x comes before y in lexicographic order
RECURSIVE LexLess(_, _)
LexLess(x, y) ==
  /\ x # <<>> /\ y # <<>>
  /\ \/ Head(x) < Head(y)
     \/ Head(x) = Head(y) /\ LexLess(Tail(x), Tail(y))

\* the number of k-element subsets of 1..m
Binomial(m, k) == Cardinality({S \in SUBSET (1..m) : Cardinality(S) = k})

C17_ShortCircuit ==
  (pc = "executed" /\ stage = "termination" /\ strategy = "Sequential") =>
    /\ calls = Slice(items, 1, Len(calls))
    /\ \A i \in 1..(Len(calls) - 1) : ~operator[calls[i]]
    /\ output = TRUE => (calls # <<>> /\ operator[calls[Len(calls)]])
    /\ output = FALSE => (calls = items /\ Satisfying(items, operator) = {})
    /\ items = <<>> => output = FALSE

\* the executor has returned true after the second of MaxLen pairs, a later
\* pair satisfying the predicate as well
C17_Witness ==
  /\ pc = "executed" /\ stage = "termination" /\ strategy = "Sequential"
  /\ Len(items) = MaxLen /\ output = TRUE /\ Len(calls) = 2
  /\ operator[items[MaxLen]]

\* C19: the parallel-batch executors split an input of length len into
\* contiguous chunks of size max(1, ceil(len / worker_count)).
C19_ChunkSize ==
  (pc \in {"running", "executed"} /\ strategy = "ParallelBatch") =>
    /\ flatten(chunks) = items
    /\ \A k \in DOMAIN chunks :
         /\ chunks[k] # <<>>
         /\ Len(chunks[k]) <= Max2(1, (Len(items) + threads - 1) \div threads)
         /\ k < Len(chunks) =>
              Len(chunks[k]) = Max2(1, (Len(items) + threads - 1) \div threads)

\* C19 as the code has it: the parallel-batch executors split an input of
\* length len into contiguous chunks of size max(1, floor(len /
\* worker_count)), the last chunk holding the remainder; there can be more
\* chunks than workers.
C19_ChunkSizeFloor ==
  (pc \in {"running", "executed"} /\ strategy = "ParallelBatch") =>
    /\ flatten(chunks) = items
    /\ \A k \in DOMAIN chunks :
         /\ chunks[k] # <<>>
         /\ Len(chunks[k]) <= Max2(1, Len(items) \div threads)
         /\ k < Len(chunks) => Len(chunks[k]) = Max2(1, Len(items) \div threads)

\* 3 solutions were split for 2 workers, into more chunks than workers
C19_Witness ==
  /\ pc = "running" /\ strategy = "ParallelBatch"
  /\ Len(items) = 3 /\ threads = 2
  /\ Len(chunks) > threads

\* a finished call on an empty population
EmptyCall ==
  /\ pc \in {"executed", "panicked"}
  /\ items = <<>>
  /\ stage \in {"selection", "selector"}

\* C18: on an empty population every per-item selection executor and every
\* stock selector but the tournament with replacement returns an empty list
\* without failing, the tournament with replacement panics with "chunk must
\* not be empty"; on a non-empty population the tournament with replacement
\* of (n, k) returns exactly n references
C18_EmptyPopulation ==
  /\ EmptyCall =>
       IF stage = "selector"
          /\ operator.kind = "TournamentSelectorWithReplacement"
       THEN pc = "panicked" /\ output = <<"chunk must not be empty">>
       ELSE pc = "executed" /\ output = <<>>
  /\ (/\ pc \in {"executed", "panicked"}
      /\ stage = "selector"
      /\ items # <<>>)
       => /\ pc = "executed"
          /\ operator.kind = "TournamentSelectorWithReplacement"
               => /\ Len(output) = operator.n
                  /\ Range(output) \subseteq Range(items)

\* the tournament with replacement has panicked on an empty population
C18_Witness ==
  /\ EmptyCall
  /\ stage = "selector"
  /\ operator.kind = "TournamentSelectorWithReplacement"
  /\ pc = "panicked"

\* C20: in every SPEA-II generation the population and its scores have been
\* merged into the archive before the terminator is consulted, so that the
\* terminator sees, and the final extraction ranges over, every solution
\* created and evaluated so far
C20_MergedBeforeTermination ==
  pc \in {"spea_terminate", "spea_extract"} =>
    /\ population = <<>>
    /\ scores = <<>>

\* C21: the environmental selection completes for every merged archive that
\* is not empty and every archive_size >= 1: in the density branch the k-th
\* nearest neighbour, k = floor(sqrt(M)), exists for every member, so the
\* selection of a generation always hands its survivors on
C21_SelectionCompletes ==
  [][(pc = "spea_select_env" /\ archive # <<>> /\ archive_size >= 1)
       => pc' = "spea_select"]_vars

-----------------------------------------------------------------------------
(* One call of Spea2::environmental_selection, followed through its locals: *)
(* the two scans, the truncation loop iteration by iteration or the density *)
(* branch, and the move of the survivors.                                    *)

\* score vectors of the members of a merged archive
EnvScores == EngScores \cup {<<0, -1>>}

\* the call as optimize() makes it: a merged archive that is not empty, one
\* score vector per member
EnvInit ==
  /\ pc = "env_scan"
  /\ DomIdle
  /\ ExecIdle
  /\ population = <<>> /\ scores = <<>>
  /\ \E M \in 1..MaxMerged :
       /\ archive = Population(M)
       /\ archive_scores \in [1..M -> EnvScores]
  /\ archive_size \in 0..MaxArchive
  /\ initial_population_size = 0
  /\ terminator = [kind |-> "none", n |-> 0]
  /\ selected = <<>> /\ created = <<>> /\ created_scores = <<>>
  /\ next_id = 0
  /\ result = [kind |-> "none"]
  /\ hist = NoHistory(terminator)
  /\ env = <<>>
  /\ trunc = <<>>

\* the locals after the two scans and the count of the non-dominated
\* members: nondom is nondom_idx_fit (truncation branch) or sol_idx_fit
\* (density branch) as solution indices, rows is sol_distances, removed
\* lists the members the loop has removed
EnvScanned(st, nondom, size) ==
  [strength_values |-> st.strength_values,
   fit |-> st.fit,
   nondommed_cnt |-> Len(nondom),
   candidates |-> nondom,
   nondom |-> IF Len(nondom) > size THEN nondom
              ELSE [i \in 1..Len(st.fit) |-> i],
   rows |-> sorted_sol_distances(IF Len(nondom) > size THEN nondom
                                 ELSE [i \in 1..Len(st.fit) |-> i],
                                 archive_scores),
   removed |-> <<>>]

\* strength values, raw fitness, nondommed_cnt and sorted_sol_distances
EnvScan ==
  /\ pc = "env_scan"
  /\ env' = EnvScanned(spea_fitness(archive_scores, Len(archive)),
                       nondominated_from(
                         spea_fitness(archive_scores, Len(archive)).fit, 1),
                       archive_size)
  /\ pc' = (IF env'.nondommed_cnt > archive_size THEN "env_truncate"
            ELSE "env_density")
  /\ UNCHANGED <<domVars, execVars, runVars, trunc>>

\* one iteration of "while nondom_idx_fit.len() > self.archive_size" that
\* removes the member at position pos
EnvRemove(pos) ==
  IF ~rows_hold(env.rows, pos)
  THEN /\ pc' = "panicked"
       /\ result' = [kind |-> "panic",
                     msg |-> "distance matrix has no entry for removed solution"]
       /\ UNCHANGED env
  ELSE /\ env' = [env EXCEPT !.nondom = remove(@, pos),
                             !.rows = rows_without(@, pos),
                             !.removed = Append(@, env.nondom[pos])]
       /\ UNCHANGED <<pc, result>>

EnvTruncateStep ==
  /\ pc = "env_truncate"
  /\ Len(env.nondom) > archive_size
  /\ IF env.rows = <<>>
     THEN /\ pc' = "panicked"
          /\ result' = [kind |-> "panic", msg |-> "no solutions remain"]
          /\ UNCHANGED env
     ELSE EnvRemove(min_row(env.rows, 1, 2))
  /\ UNCHANGED <<domVars, execVars, population, scores, archive, archive_scores,
                 initial_population_size, archive_size, terminator, selected,
                 created, created_scores, next_id, hist, trunc>>

\* the survivors r.indices moved out of `solutions`, or the panic r
EnvTaken(r) ==
  /\ result' = spea_take(archive, archive_scores, env, r)
  /\ pc' = (IF r.kind = "ok" THEN "env_done" ELSE "panicked")
  /\ UNCHANGED <<domVars, execVars, population, scores, archive, archive_scores,
                 initial_population_size, archive_size, terminator, selected,
                 created, created_scores, next_id, hist, env, trunc>>

\* the loop is left and nondom_idx_fit is what survives
EnvTruncateDone ==
  /\ pc = "env_truncate"
  /\ Len(env.nondom) <= archive_size
  /\ EnvTaken([kind |-> "ok", indices |-> env.nondom])

\* the else branch: density added, sort_unstable_by, truncate
EnvDensity ==
  /\ pc = "env_density"
  /\ \E r \in spea_density(env.fit, env.rows, isqrt(Len(env.fit)), archive_size) :
       EnvTaken(r)

EnvNext ==
  \/ EnvScan
  \/ EnvTruncateStep
  \/ EnvTruncateDone
  \/ EnvDensity

SpecEnv == EnvInit /\ [][EnvNext]_vars

\* the sum of f over the members of the finite set S
RECURSIVE SumOver(_, _)
SumOver(S, f) ==
  IF S = {} THEN 0
  ELSE LET x == CHOOSE y \in S : TRUE IN f[x] + SumOver(S \ {x}, f)

\* the members of scs that member i dominates, and those that dominate it
DominatedBy(scs, i) == {j \in DOMAIN scs : Dominates(scs[i], scs[j])}
DominatorsOf(scs, i) == {j \in DOMAIN scs : Dominates(scs[j], scs[i])}

\* C22: over a merged archive of M >= 1 members the strength computed for
\* member i is the number of members i dominates and its raw fitness is the
\* sum of the strengths of the members that dominate it; the raw fitness is
\* 0 exactly for the non-dominated members and at least 1 for the others
C22_StrengthAndFitness ==
  pc # "env_scan" =>
    \A i \in DOMAIN archive_scores :
      /\ env.strength_values[i] = Cardinality(DominatedBy(archive_scores, i))
      /\ env.fit[i] = SumOver(DominatorsOf(archive_scores, i), env.strength_values)
      /\ env.fit[i] = 0 <=> i \in NonDominated(archive_scores)
      /\ i \notin NonDominated(archive_scores) => env.fit[i] >= 1
      /\ env.fit[i] < 1 <=> i \in Range(env.candidates)

\* a member dominated by two others, one of which dominates the other, has
\* been given a raw fitness above the number of its dominators
C22_Witness ==
  /\ pc = "env_done"
  /\ \E i \in DOMAIN archive_scores :
       /\ Cardinality(DominatorsOf(archive_scores, i)) = 2
       /\ env.fit[i] >= 3

\* the distances of a row of the distance matrix, in order
Dists(row) == [e \in DOMAIN row |-> row[e][2]]

\* the squared Euclidean distance of two score vectors
SquaredDistance(x, y) ==
  SumOver(DOMAIN x, [c \in DOMAIN x |-> (x[c] - y[c]) * (x[c] - y[c])])

\* x comes before y in the lexicographic order of distance lists
DistsLess(x, y) ==
  \E e \in DOMAIN x :
    /\ e \in DOMAIN y
    /\ x[e] < y[e]
    /\ \A f \in 1..(e - 1) : x[f] = y[f]

\* the rows of e and its candidate list correspond position by position:
\* row k is the row of candidate k, sorted ascending, with one entry for
\* each other remaining candidate, the entry holding their distance
RowsCorrespond(e, scs) ==
  /\ Len(e.rows) = Len(e.nondom)
  /\ Len(e.removed) + Len(e.nondom) = e.nondommed_cnt
  /\ \A k \in DOMAIN e.rows :
       /\ e.candidates[e.rows[k][1]] = e.nondom[k]
       /\ Len(e.rows[k][2]) = Len(e.nondom) - 1
       /\ {e.rows[k][2][x][1] : x \in DOMAIN e.rows[k][2]}
            = {e.rows[j][1] : j \in DOMAIN e.rows \ {k}}
       /\ \A x \in DOMAIN e.rows[k][2] :
            e.rows[k][2][x][2]
              = SquaredDistance(scs[e.nondom[k]],
                                scs[e.candidates[e.rows[k][2][x][1]]])
       /\ \A x, y \in DOMAIN e.rows[k][2] :
            x < y => e.rows[k][2][x][2] <= e.rows[k][2][y][2]

\* s without its element at position pos
Without(s, pos) ==
  [k \in 1..(Len(s) - 1) |-> IF k < pos THEN s[k] ELSE s[k + 1]]

\* C23: in the truncation loop every iteration removes exactly one member,
\* the first in current order whose ascending distance list is
\* lexicographically smallest; before and after each removal the rows and
\* the candidate list correspond position by position, every row is sorted
\* and holds one entry for each other remaining member; the loop ends after
\* exactly (non-dominated count - archive_size) removals
C23_TruncationLoop ==
  [][pc = "env_truncate" =>
       /\ RowsCorrespond(env, archive_scores)
       /\ RowsCorrespond(env', archive_scores)
       /\ IF Len(env.nondom) > archive_size
          THEN /\ pc' = "env_truncate"
               /\ \E pos \in DOMAIN env.nondom :
                    /\ env'.nondom = Without(env.nondom, pos)
                    /\ env'.removed = Append(env.removed, env.nondom[pos])
                    /\ \A k \in DOMAIN env.rows :
                         ~DistsLess(Dists(env.rows[k][2]), Dists(env.rows[pos][2]))
                    /\ \A k \in 1..(pos - 1) :
                         DistsLess(Dists(env.rows[pos][2]), Dists(env.rows[k][2]))
          ELSE /\ pc' = "env_done"
               /\ Len(env.removed) = env.nondommed_cnt - archive_size
               /\ Len(env.nondom) = archive_size
               /\ result'.indices = env.nondom]_vars

\* the loop has ended after two removals, the second of which took a member
\* that stood before the first one
C23_Witness ==
  /\ pc = "env_done"
  /\ env.nondommed_cnt > archive_size
  /\ Len(env.removed) = 2
  /\ env.removed[2] < env.removed[1]

\* C24: the environmental selection never keeps a dominated member while it
\* discards a non-dominated one: when more than archive_size members are
\* non-dominated every survivor is non-dominated, otherwise every
\* non-dominated member survives, and in the order of the survivors no
\* dominated member stands before a non-dominated one
C24_NonDominatedFirst ==
  pc = "env_done" =>
    /\ IF Cardinality(NonDominated(archive_scores)) > archive_size
       THEN Range(result.indices) \subseteq NonDominated(archive_scores)
       ELSE NonDominated(archive_scores) \subseteq Range(result.indices)
    /\ ~\E i \in Range(result.indices), j \in DOMAIN archive_scores :
          /\ i \notin NonDominated(archive_scores)
          /\ j \in NonDominated(archive_scores)
          /\ j \notin Range(result.indices)
    /\ \A p, q \in DOMAIN result.indices :
          (p < q /\ result.indices[q] \in NonDominated(archive_scores))
            => result.indices[p] \in NonDominated(archive_scores)
    /\ result.scs = [p \in DOMAIN result.indices |-> archive_scores[result.indices[p]]]
    /\ result.sols = [p \in DOMAIN result.indices |-> archive[result.indices[p]]]

\* the density branch has kept every non-dominated member and one dominated
\* member, and has discarded another dominated member
C24_Witness ==
  /\ pc = "env_done"
  /\ Cardinality(NonDominated(archive_scores)) < archive_size
  /\ \E i \in Range(result.indices) : i \notin NonDominated(archive_scores)
  /\ \E j \in DOMAIN archive_scores : j \notin Range(result.indices)

-----------------------------------------------------------------------------
(* One call of Nsga2::crowding_distance_selection on a combined population  *)
(* of parents and offspring, with the locals it ends with.                   *)

\* score vectors of the members of a combined population
TruncScores == EngScores \cup {<<1, -1>>}

\* the call as optimize() makes it when every call of the tester returned
\* one score vector per solution: at least initial_population_size
\* solutions, the parents, and as many score vectors
TruncInit ==
  /\ pc = "truncate"
  /\ DomIdle
  /\ ExecIdle
  /\ \E M \in 1..MaxCombined :
       /\ population = Population(M)
       /\ scores \in [1..M -> TruncScores]
       /\ initial_population_size \in 1..M
  /\ archive = <<>> /\ archive_scores = <<>> /\ archive_size = 0
  /\ terminator = [kind |-> "none", n |-> 0]
  /\ selected = <<>> /\ created = <<>> /\ created_scores = <<>>
  /\ next_id = 0
  /\ result = [kind |-> "none"]
  /\ hist = NoHistory(terminator)
  /\ env = <<>>
  /\ trunc = <<>>

\* (population, scores) = self.crowding_distance_selection(population, scores):
\* the scan, whose dominance lists and counters trunc keeps, and the rest of
\* the procedure
Truncate ==
  /\ pc = "truncate"
  /\ trunc' = nsga_scan(scores, Len(population))
  /\ result' = nsga_scanned(population, scores, initial_population_size, trunc')
  /\ pc' = (IF result'.kind = "ok" THEN "truncated"
            ELSE IF result'.kind = "hang" THEN "hung" ELSE "panicked")
  /\ UNCHANGED <<domVars, execVars, population, scores, archive, archive_scores,
                 initial_population_size, archive_size, terminator, selected,
                 created, created_scores, next_id, hist, env>>

TruncNext == Truncate

SpecTrunc == TruncInit /\ [][TruncNext]_vars

\* the fronts a truncation call has built, in order: the admitted ones and
\* the last one
Fronts(r) == r.fronts \o <<r.last_front>>

\* the members of the fronts 1..k of F
FrontsUpTo(F, k) == UNION {Range(F[j]) : j \in 1..k}

\* C25: the fronts built by the truncation are the successive non-dominated
\* layers of the combined population: the first front is not empty and holds
\* exactly the solutions no other solution dominates; a solution is in front
\* k + 1 exactly when all of its dominators are in the fronts up to k and
\* one of them is in front k; no solution is in two fronts, and the scan
\* meets each unordered pair once
C25_FrontsAreLayers ==
  pc = "truncated" =>
    /\ Fronts(result)[1] # <<>>
    /\ Range(Fronts(result)[1]) = NonDominated(scores)
    /\ \A k \in 1..(Len(Fronts(result)) - 1) :
         Range(Fronts(result)[k + 1]) =
           {i \in DOMAIN scores :
              /\ DominatorsOf(scores, i) \subseteq FrontsUpTo(Fronts(result), k)
              /\ DominatorsOf(scores, i) \cap Range(Fronts(result)[k]) # {}}
    /\ Len(flatten(Fronts(result)))
         = Cardinality(FrontsUpTo(Fronts(result), Len(Fronts(result))))
    /\ \A p \in DOMAIN scores :
         /\ Range(trunc.dominance_lists[p]) = DominatedBy(scores, p)
         /\ Len(trunc.dominance_lists[p]) = Cardinality(DominatedBy(scores, p))
         /\ trunc.dominance_counters[p] = Cardinality(DominatorsOf(scores, p))

\* three fronts were built; a member of the third has a dominator in the
\* first front and one in the second
C25_Witness ==
  /\ pc = "truncated"
  /\ Len(Fronts(result)) = 3
  /\ \E i \in Range(Fronts(result)[3]) :
       /\ DominatorsOf(scores, i) \cap Range(Fronts(result)[1]) # {}
       /\ DominatorsOf(scores, i) \cap Range(Fronts(result)[2]) # {}

\* C26: the truncation is elitist: no solution it discards dominates a
\* solution it retains; every member of a front before the last admitted
\* one is retained, and what it discards belongs to the last front or to
\* no front that was built
C26_Elitist ==
  pc = "truncated" =>
    /\ \A i \in DOMAIN scores \ Range(result.indices) :
         /\ \A j \in Range(result.indices) : ~Dominates(scores[i], scores[j])
         /\ i \notin FrontsUpTo(result.fronts, Len(result.fronts))
    /\ FrontsUpTo(result.fronts, Len(result.fronts)) \subseteq Range(result.indices)

\* a front was admitted whole, a part of the second was retained, and a
\* solution of no front was discarded
C26_Witness ==
  /\ pc = "truncated"
  /\ Len(result.fronts) = 1
  /\ Range(result.last_front) \cap Range(result.indices) # {}
  /\ Range(result.last_front) \ Range(result.indices) # {}
  /\ \E i \in DOMAIN scores :
       i \notin FrontsUpTo(Fronts(result), Len(Fronts(result)))

\* C27: the indices the truncation selects hold no duplicate, and the
\* population and the scores it returns are aligned: every survivor is a
\* distinct member of the combined population and the score at position k
\* of the result is the score vector that member had before the truncation
C27_UniqueAndAligned ==
  /\ pc \notin {"panicked", "hung"}
  /\ pc = "truncated" =>
       /\ Len(result.indices) = initial_population_size
       /\ Cardinality(Range(result.indices)) = Len(result.indices)
       /\ Range(result.indices) \subseteq DOMAIN population
       /\ Len(result.sols) = Len(result.indices)
       /\ Len(result.scs) = Len(result.sols)
       /\ \A k \in DOMAIN result.indices :
            /\ result.sols[k] = population[result.indices[k]]
            /\ result.scs[k] = scores[result.indices[k]]
       /\ \A k, l \in DOMAIN result.sols :
            k # l => result.sols[k].id # result.sols[l].id

\* an offspring has displaced a parent, and the survivors are returned in
\* another order than they had, with differing scores
C27_Witness ==
  /\ pc = "truncated"
  /\ \E k \in DOMAIN result.indices : result.indices[k] > initial_population_size
  /\ \E k, l \in DOMAIN result.indices :
       /\ k < l
       /\ result.indices[k] > result.indices[l]
       /\ result.scs[k] # result.scs[l]

\* C28: crowding distance is computed for the members of the last, partly
\* admitted front only: when the final order is computed every solution of
\* a fully admitted front, or of no admitted front, still has crowding
\* distance 0, and only entries of members of the last front were written
C28_CrowdingOnlyLastFront ==
  pc = "truncated" =>
    \A i \in DOMAIN scores \ Range(result.last_front) :
      result.crowding_distances[i] = 0

-----------------------------------------------------------------------------
(* Mutation: the executors of src/mutation.rs on a slice of newly created   *)
(* solutions, and the runs of the two engines, whose loop bodies hand their *)
(* created solutions to the executor.                                        *)

\* a call of a mutation executor, or a run of an optimizer
MutationInit ==
  \/ ExecInit /\ stage = "mutation"
  \/ NsgaInit
  \/ SpeaInit

MutationNext ==
  \/ SequentialMutation
  \/ ParallelSplit
  \/ WorkerRun
  \/ ParallelCollect
  \/ NsgaNext
  \/ SpeaNext

SpecMutation == MutationInit /\ [][MutationNext]_vars

\* the number of solutions of the initial population of a run
InitialCount ==
  IF hist.tests = <<>> THEN Len(population) ELSE hist.tests[1].given

\* a solution of a run has been mutated once if it was created by the run
\* and never if it belongs to the initial population
MutatedAsCreated(s) == s.muts = (IF s.id <= InitialCount THEN 0 ELSE 1)

\* C29: under every mutation strategy and worker count the operator is
\* applied exactly once to each newly created solution, no two workers being
\* handed the same element; in every generation of either engine the
\* created solutions are mutated after recombination and before they are
\* tested, and the solutions carried over from the generation before are
\* left as they were
C29_MutatedOnce ==
  /\ (stage = "mutation" /\ pc \in {"running", "executed"}) =>
       /\ strategy # "Sequential" =>
            /\ flatten(chunks) = items
            /\ \A w, v \in DOMAIN workers :
                 \A e \in DOMAIN workers[w], f \in DOMAIN workers[v] :
                   (w # v \/ e # f) => workers[w][e].chunk # workers[v][f].chunk
       /\ \A i \in DOMAIN items :
            Cardinality({k \in DOMAIN calls : calls[k].id = items[i].id}) <= 1
       /\ \A k \in DOMAIN calls : calls[k] \in Range(items)
  /\ (stage = "mutation" /\ pc = "executed") =>
       /\ Len(calls) = Len(items)
       /\ output = [i \in DOMAIN items |-> [items[i] EXCEPT !.muts = 1]]
       /\ output = execute_mutations(items)
  /\ stage = "none" =>
       /\ \A s \in Range(population) \cup Range(archive) : MutatedAsCreated(s)
       /\ pc \in {"nsga_mutate", "spea_mutate"} =>
            \A s \in Range(created) : s.muts = 0 /\ s.id > InitialCount
       /\ pc \in {"nsga_test_created", "nsga_truncate", "spea_test_created"} =>
            \A s \in Range(created) : s.muts = 1 /\ s.id > InitialCount
       /\ (pc = "returned" /\ result.kind = "ok") =>
            \A s \in Range(result.value) : MutatedAsCreated(s)

\* a batched parallel call on three solutions has ended, each of two
\* workers having mutated a piece
C29_Witness ==
  /\ stage = "mutation" /\ pc = "executed"
  /\ strategy = "ParallelBatch"
  /\ Len(items) = 3
  /\ \E w, v \in DOMAIN workers : w # v /\ workers[w] # <<>> /\ workers[v] # <<>>

\* a call of one of the two tournament selectors has returned
TournamentsHeld ==
  /\ stage = "selector" /\ pc = "executed"
  /\ operator.kind \in {"TournamentSelectorWithoutReplacement",
                        "TournamentSelectorWithReplacement"}

\* C30: the solution emitted for a tournament is a member of it that no
\* other member of the same tournament dominates, whatever the order in
\* which the members are scanned; when no member dominates another the one
\* scanned first is emitted
C30_TournamentWinner ==
  TournamentsHeld =>
    /\ Len(output) = Len(calls)
    /\ \A t \in DOMAIN calls :
         /\ output[t] \in Range(calls[t])
         /\ \A m \in Range(calls[t]) :
              ~Dominates(item_scores[m], item_scores[output[t]])
         /\ (\A m, n \in Range(calls[t]) :
               ~Dominates(item_scores[m], item_scores[n]))
              => output[t] = calls[t][1]

\* a tournament of three was won by the member scanned last, after two
\* members neither of which dominates the other
C30_Witness ==
  /\ TournamentsHeld
  /\ \E t \in DOMAIN calls :
       /\ Len(calls[t]) = 3
       /\ output[t] = calls[t][3]
       /\ ~Dominates(item_scores[calls[t][1]], item_scores[calls[t][2]])
       /\ ~Dominates(item_scores[calls[t][2]], item_scores[calls[t][1]])
       /\ item_scores[calls[t][1]] # item_scores[calls[t][2]]

====
